---- MODULE Spec2Model ----
(***************************************************************************)
(* RAG context-assembly and hybrid-ranking pipeline of the backend:        *)
(* app/api/v1/agents.py, app/api/v1/documents.py,                          *)
(* app/services/qdrant_service.py, app/services/embedding_service.py and   *)
(* app/services/google_adk_service.py.                                     *)
(*                                                                         *)
(* Conventions.                                                            *)
(*  - A Python str is a sequence of tokens; a token is a TLA+ string that  *)
(*    stands for one character ("r", "R", "x") or for one literal chunk of *)
(*    a format string ("Document: ", "\n\n").  Concatenation is \o.        *)
(*  - Optional[T] is a sequence of length 0 (None) or 1 (the value).       *)
(*  - Scores, weights and thresholds are fixed-point hundredths            *)
(*    (0.7 is 70); a product of two of them is in 1/10000.                 *)
(*  - The vector index (Qdrant) is an externally owned service: a          *)
(*    collection is a set of points, a point is its payload's document_id  *)
(*    and organization_id plus the similarity score it has against the     *)
(*    query of the run.                                                    *)
(***************************************************************************)
EXTENDS Integers, Sequences, FiniteSets, TLC

VARIABLES
    documents,              \* documents table: id -> row
    messages,               \* messages table: id -> row
    conversations,          \* conversations table: id -> row
    qdrant,                 \* vector index: collection name -> set of points
    tasks,                  \* BackgroundTasks scheduled and not yet run
    pc,                     \* position of the full-RAG request
    request,                \* the full-RAG request being served
    context_documents,      \* local of execute_agent_with_full_rag
    context_messages,       \* local of execute_agent_with_full_rag
    enhanced_system_prompt, \* local of execute_agent_with_full_rag
    calls,                  \* collaborator calls made by the full-RAG request
    phases,                 \* phases the full-RAG request went through
    faults,                 \* what the collaborators did during the request
    llm_system_prompt,      \* system_prompt execute_agent was called with
    response,               \* what the full-RAG request returned
    out                     \* what the last single-step endpoint returned

vars == <<documents, messages, conversations, qdrant, tasks, pc, request,
          context_documents, context_messages, enhanced_system_prompt,
          calls, phases, faults, llm_system_prompt, response, out>>

ragVars == <<pc, request, context_documents, context_messages,
             enhanced_system_prompt, calls, phases, faults,
             llm_system_prompt, response>>

storeVars == <<documents, messages, conversations>>

----------------------------------------------------------------------------
(* Bounds of the model *)

NumDocs == 2
MaxLimit == 2

DocIds == 1..NumDocs
Limits == 1..MaxLimit
Orgs == {"T1", "T2"}
Users == {"u1", "u2"}
MsgIds == {1}
ConvIds == {"c1"}
Scores == {50, 92}

----------------------------------------------------------------------------
(* Values *)

None == <<>>
Some(x) == <<x>>

\* Python truthiness of an Optional[str]: None and "" are falsy
Truthy(o) == o # None /\ o[1] # <<>>

Min(a, b) == IF a <= b THEN a ELSE b

\* s[:n]
Prefix(s, n) == SubSeq(s, 1, Min(Len(s), n))

\* every ordering of a finite set, as sequences without repetition
Orderings(S) ==
    {s \in [1..Cardinality(S) -> S] : \A i, j \in DOMAIN s : i # j => s[i] # s[j]}

RECURSIVE JoinWith(_, _)
\* sep.join(parts)
JoinWith(sep, parts) ==
    IF parts = <<>> THEN <<>>
    ELSE IF Len(parts) = 1 THEN parts[1]
    ELSE parts[1] \o sep \o JoinWith(sep, Tail(parts))

\* [f(x) for x in s]
MapSeq(s, f(_)) == [i \in DOMAIN s |-> f(s[i])]

\* text columns used by the model
Title1 == <<"R", "x">>
Content1 == <<"x", "r">>

----------------------------------------------------------------------------
(* QdrantService *)

similarity_threshold == 70
max_search_results == 10

Point(d, o, s) == [document_id |-> d, organization_id |-> o, score |-> s]

\* the points a well-formed collection may hold: ids are hash(org_doc), so
\* there is at most one point per (organization, document)
Collections(ids) ==
    {c \in SUBSET {Point(d, o, s) : d \in ids, o \in Orgs, s \in Scores} :
        \A p, q \in c :
            (p.document_id = q.document_id /\ p.organization_id = q.organization_id)
                => p = q}

\* search_similar: the result lists the index may answer with.  The client
\* returns the matching points by non-increasing score; the order of points
\* of equal score is the index's choice.  limit 0 stands for a falsy limit.
search_similar(collection_name, organization_id, limit, score_threshold) ==
    LET lim  == IF limit = 0 THEN max_search_results ELSE limit
        thr  == IF score_threshold = 0 THEN similarity_threshold ELSE score_threshold
        hits == {p \in qdrant[collection_name] :
                    p.organization_id = organization_id /\ p.score >= thr}
    IN  {Prefix(s, lim) : s \in {o \in Orderings(hits) :
            \A i, j \in DOMAIN o : i < j => o[i].score >= o[j].score}}

----------------------------------------------------------------------------
(* What the collaborators do during one retrieval.                          *)
(*   "none"        every call answers                                       *)
(*   "embed_empty" embed_text returns the empty vector                      *)
(*   "embed_raise" the embedding provider raises                            *)
(*   "index_raise" the Qdrant client raises; search_similar catches it and  *)
(*                 returns []                                               *)
(*   "store_raise" the database query raises                                *)

Failures == {"none", "embed_empty", "embed_raise", "index_raise", "store_raise"}

EmbeddingOk(failure) == failure \notin {"embed_empty", "embed_raise"}

\* search_results as the caller of search_similar sees them
SearchResults(collection_name, organization_id, limit, score_threshold, failure) ==
    IF failure = "index_raise" THEN {<<>>}
    ELSE search_similar(collection_name, organization_id, limit, score_threshold)

\* the collaborator calls a retrieval makes: embed_text always, search_similar
\* once there is a vector, the database once there are search results
RetrievalCalls(failure, search_results) ==
    [embed |-> 1,
     search |-> IF EmbeddingOk(failure) THEN 1 ELSE 0,
     store |-> IF EmbeddingOk(failure) /\ search_results # <<>> THEN 1 ELSE 0]

----------------------------------------------------------------------------
(* retrieve_document_context *)

\* the ContextDocument built for a search hit
ContextDocument(r) ==
    LET doc == documents[r.document_id]
    IN  [id |-> r.document_id,
         title |-> IF Truthy(doc.title) THEN doc.title[1] ELSE <<"Untitled">>,
         preview |-> IF Truthy(doc.content) THEN Prefix(doc.content[1], 200) ELSE <<>>,
         relevance_score |-> r.score]

\* variant of ActiveDocumentsOf without the is_active filter
DocumentsOfAnyState(ids, organization_id) ==
    {d \in DOMAIN documents :
        /\ d \in ids
        /\ documents[d].organization_id = organization_id}

\* db.query(Document).filter(id in ids, organization_id == org, is_active)
ActiveDocumentsOf(ids, organization_id) ==
    {d \in DOMAIN documents :
        /\ d \in ids
        /\ documents[d].organization_id = organization_id
        /\ documents[d].is_active}

\* context_docs for given search_results.  The whole body is inside
\* try/except Exception: any raise gives ([], "").
DocumentContextOf(organization_id, failure, search_results) ==
    IF ~EmbeddingOk(failure) \/ search_results = <<>> \/ failure = "store_raise"
    THEN <<>>
    ELSE LET ids  == {search_results[i].document_id : i \in DOMAIN search_results}
             docs == ActiveDocumentsOf(ids, organization_id)
             kept == SelectSeq(search_results, LAMBDA r : r.document_id \in docs)
         IN  MapSeq(kept, ContextDocument)

\* the results retrieve_document_context may return, with the calls it made
retrieve_document_context(organization_id, limit, score_threshold, failure) ==
    {[items |-> DocumentContextOf(organization_id, failure, sr),
      calls |-> RetrievalCalls(failure, sr)] :
        sr \in SearchResults("documents", organization_id, limit,
                             score_threshold, failure)}

----------------------------------------------------------------------------
(* semantic_search_documents *)

\* db.query(Document).filter(Document.id.in_(document_ids)) has no
\* organization filter; the loop keeps a hit when doc and doc.is_active.
\* An empty embedding raises HTTPException(400) inside the try, which the
\* except Exception turns into a 500 like every other raise.
SemanticSearchOf(failure, search_results) ==
    IF ~EmbeddingOk(failure) \/ failure = "store_raise"
    THEN [status |-> 500, data |-> <<>>]
    ELSE LET kept == SelectSeq(search_results, LAMBDA r :
                        /\ r.document_id \in DOMAIN documents
                        /\ documents[r.document_id].is_active)
         IN  [status |-> 200, data |-> MapSeq(kept, LAMBDA r : r.document_id)]

\* the responses the endpoint may give to a user of organization_id
semantic_search_documents(organization_id, limit, min_score, failure) ==
    {SemanticSearchOf(failure, sr) :
        sr \in SearchResults("documents", organization_id, limit, min_score, failure)}

----------------------------------------------------------------------------
(* retrieve_conversation_context *)

ContextMessage(r) ==
    LET msg == messages[r.document_id]
    IN  [id |-> r.document_id,
         conversation_id |-> msg.conversation_id,
         role |-> msg.role,
         content |-> msg.content,
         relevance_score |-> r.score]

\* messages_with_conv: the hits that have a row whose conversation belongs to
\* user_id.  query_obj, which carries the conversation_id filter, is built
\* and never executed.
MessagesWithConv(ids, user_id) ==
    {m \in DOMAIN messages :
        /\ m \in ids
        /\ messages[m].conversation_id \in DOMAIN conversations
        /\ conversations[messages[m].conversation_id].user_id = user_id}

MessageContextOf(user_id, failure, search_results) ==
    IF ~EmbeddingOk(failure) \/ search_results = <<>> \/ failure = "store_raise"
    THEN <<>>
    ELSE LET ids  == {search_results[i].document_id : i \in DOMAIN search_results}
             msgs == MessagesWithConv(ids, user_id)
             kept == SelectSeq(search_results, LAMBDA r : r.document_id \in msgs)
         IN  MapSeq(kept, ContextMessage)

\* the results retrieve_conversation_context may return, with the calls it made
retrieve_conversation_context(conversation_id, user_id, organization_id, limit, score_threshold, failure) ==
    {[items |-> MessageContextOf(user_id, failure, sr),
      calls |-> RetrievalCalls(failure, sr)] :
        sr \in SearchResults("conversations", organization_id, limit,
                             score_threshold, failure)}

----------------------------------------------------------------------------
(* build_rag_system_prompt and the assembly step of the full-RAG endpoint *)

Preamble ==
    <<"You are a helpful assistant. Use the following context to answer questions.">>

Upper(t) ==
    CASE t = "user" -> "USER"
      [] t = "model" -> "MODEL"
      [] t = "r" -> "R"
      [] t = "x" -> "X"
      [] OTHER -> t

build_rag_system_prompt(base_prompt, document_context, message_context, include_system_context) ==
    LET context_parts ==
            (IF include_system_context THEN <<Preamble>> ELSE <<>>)
            \o (IF document_context # <<>>
                THEN <<(<<"DOCUMENT CONTEXT:\n">> \o document_context)>> ELSE <<>>)
            \o (IF message_context # <<>>
                THEN <<(<<"CONVERSATION CONTEXT:\n">> \o message_context)>> ELSE <<>>)
        context_section == JoinWith(<<"\n\n">>, context_parts)
    IN  IF Truthy(base_prompt)
        THEN base_prompt[1] \o <<"\n\n">> \o context_section
        ELSE context_section

\* f"Document: {doc.title}\n{doc.preview}" of a ContextDocument
DocumentSnippet(doc) == <<"Document: ">> \o doc.title \o <<"\n">> \o doc.preview

\* f"{msg.role.upper()}: {msg.content}" of a ContextMessage
MessageSnippet(msg) == MapSeq(msg.role, Upper) \o <<": ">> \o msg.content

\* variant of AssembledPrompt without the "if context_documents or
\* context_messages" guard: the prompt is rebuilt on every request
AssembledPromptUnguarded(req, cdocs, cmsgs) ==
    Some(build_rag_system_prompt(
            req.system_prompt,
            JoinWith(<<"\n\n">>, MapSeq(cdocs, DocumentSnippet)),
            JoinWith(<<"\n\n">>, MapSeq(cmsgs, MessageSnippet)),
            req.include_agent_system_context))

\* enhanced_system_prompt after the "Build enhanced system prompt" block
AssembledPrompt(req, cdocs, cmsgs) ==
    IF cdocs # <<>> \/ cmsgs # <<>>
    THEN Some(build_rag_system_prompt(
                req.system_prompt,
                JoinWith(<<"\n\n">>, MapSeq(cdocs, DocumentSnippet)),
                JoinWith(<<"\n\n">>, MapSeq(cmsgs, MessageSnippet)),
                req.include_agent_system_context))
    ELSE req.system_prompt

----------------------------------------------------------------------------
(* GoogleADKService.execute_agent *)

\* What the provider does with one generate_content call.
\*   "text"     a response whose .text is the generated text
\*   "blocked"  a response without usable text (content-policy rejection):
\*              reading .text raises
\*   "error"    generate_content raises (call error, timeout)
\*   "disabled" the service is not enabled: execute_agent raises ValueError
LlmOutcomes == {"text", "blocked", "error", "disabled"}

ModelText == <<"generated text">>
ReprOfResponse == <<"str(response)">>

\* _parse_response: when reading the response raises, the except branch
\* answers with str(response) as the content
parse_response(llm) ==
    IF llm = "text"
    THEN [content |-> ModelText, finish_reason |-> "STOP"]
    ELSE [content |-> ReprOfResponse, finish_reason |-> "ERROR"]

execute_agent(system_prompt, llm) ==
    IF llm = "disabled"
    THEN [raised |-> TRUE, success |-> FALSE, response |-> None,
          error |-> Some("Google ADK is not enabled"), message_count |-> 0]
    ELSE IF llm = "error"
    THEN [raised |-> FALSE, success |-> FALSE, response |-> None,
          error |-> Some("generate_content failed"), message_count |-> 0]
    ELSE [raised |-> FALSE, success |-> TRUE, response |-> Some(parse_response(llm)),
          error |-> None, message_count |-> 2]

\* what execute_agent_with_full_rag answers once execute_agent returned:
\* HTTPException(500) when it raised, HTTPException(400, detail=error) when
\* success is false, else ExecuteAgentWithFullRAGResponse.  An HTTPException
\* carries a status code and a detail, nothing else.
FullRagResponse(result, cdocs, cmsgs) ==
    IF result.raised \/ ~result.success
    THEN [status |-> IF result.raised THEN 500 ELSE 400,
          detail |-> result.error,
          answer |-> None,
          documents |-> None,
          messages |-> None,
          context_used |-> None]
    ELSE [status |-> 200,
          detail |-> None,
          answer |-> Some(result.response[1].content),
          documents |-> Some(cdocs),
          messages |-> Some(cmsgs),
          context_used |-> Some(Len(cdocs) > 0 \/ Len(cmsgs) > 0)]

----------------------------------------------------------------------------
(* Tables *)

DocRow(org, active, title, summary, content) ==
    [organization_id |-> org, is_active |-> active,
     title |-> title, summary |-> summary, content |-> content]

\* document tables over a set of rows: any subset of the ids may have a row
Tables(rows) == UNION {[D -> rows] : D \in SUBSET DocIds}

SeedMessages == [m \in MsgIds |->
    [conversation_id |-> "c1", role |-> <<"user">>, content |-> <<"x", "r">>]]

SeedConversations == [c \in ConvIds |-> [user_id |-> "u1"]]

NoRequest == [organization_id |-> "T1"]
NoCalls == [doc |-> [embed |-> 0, search |-> 0, store |-> 0],
            msg |-> [embed |-> 0, search |-> 0, store |-> 0],
            llm |-> 0]
NoFaults == [doc |-> "-", msg |-> "-", llm |-> "-"]
NoResponse == [status |-> 0, detail |-> None, answer |-> None, documents |-> None,
               messages |-> None, context_used |-> None]
NoOut == [op |-> "none", organization_id |-> "T1", status |-> 0, data |-> <<>>]

\* no full-RAG request is being served
RagIdle ==
    /\ pc = "IDLE"
    /\ request = NoRequest
    /\ context_documents = <<>>
    /\ context_messages = <<>>
    /\ enhanced_system_prompt = None
    /\ calls = NoCalls
    /\ phases = <<>>
    /\ faults = NoFaults
    /\ llm_system_prompt = None
    /\ response = NoResponse

----------------------------------------------------------------------------
(* Specification SpecSearch: document retrieval over every table and every  *)
(* content of the "documents" collection, stale points included             *)

Thresholds == {0, 70}

SearchInit ==
    /\ documents \in Tables({DocRow(o, a, Some(Title1), None, Some(Content1)) :
                                o \in Orgs, a \in BOOLEAN})
    /\ messages = SeedMessages
    /\ conversations = SeedConversations
    /\ qdrant \in {[documents |-> c, conversations |-> {}] : c \in Collections(DocIds)}
    /\ tasks = {}
    /\ RagIdle
    /\ out = NoOut

\* a caller of retrieve_document_context gets its result
RetrieveDocumentContext ==
    \E org \in Orgs, limit \in Limits, thr \in Thresholds, failure \in Failures :
    \E r \in retrieve_document_context(org, limit, thr, failure) :
        /\ out' = [op |-> "retrieve_document_context",
                   organization_id |-> org,
                   status |-> 200,
                   data |-> MapSeq(r.items, LAMBDA c : c.id)]
        /\ UNCHANGED <<storeVars, qdrant, tasks, ragVars>>

\* POST /documents/search/semantic by a user of organization org
SemanticSearchDocuments ==
    \E org \in Orgs, limit \in Limits, min_score \in Thresholds, failure \in Failures :
    \E r \in semantic_search_documents(org, limit, min_score, failure) :
        /\ out' = [op |-> "semantic_search_documents",
                   organization_id |-> org,
                   status |-> r.status,
                   data |-> r.data]
        /\ UNCHANGED <<storeVars, qdrant, tasks, ragVars>>

SearchNext == RetrieveDocumentContext \/ SemanticSearchDocuments

SpecSearch == SearchInit /\ [][SearchNext]_vars

\* C1: document retrieval (retrieve_document_context and the semantic-search
\* endpoint) never returns a document whose stored organization_id differs
\* from the tenant the search was issued for, whatever the index holds.
C1_NoCrossTenantDocument ==
    out.op \in {"retrieve_document_context", "semantic_search_documents"} =>
        \A i \in DOMAIN out.data :
            documents[out.data[i]].organization_id = out.organization_id

\* the part of C1 that the code keeps: the RAG helper filters the rows by tenant
C1_HelperNoCrossTenantDocument ==
    out.op = "retrieve_document_context" =>
        \A i \in DOMAIN out.data :
            documents[out.data[i]].organization_id = out.organization_id

----------------------------------------------------------------------------
(* delete_document and its background task *)

\* DELETE /documents/{d} by an admin of the document's organization: the
\* soft delete is committed, the vector removal is scheduled
DeleteDocument(d) ==
    /\ d \in DOMAIN documents
    /\ documents' = [documents EXCEPT ![d].is_active = FALSE]
    /\ tasks' = tasks \cup {[task |-> "delete_document_vector",
                             document_id |-> d,
                             organization_id |-> documents[d].organization_id]}
    /\ UNCHANGED <<messages, conversations, qdrant, ragVars, out>>

\* QdrantService.delete_document_vector: the points whose payload matches
\* document_id and organization_id are removed
delete_document_vector(collection, document_id, organization_id) ==
    {p \in collection :
        ~(p.document_id = document_id /\ p.organization_id = organization_id)}

\* the background task runs; when the client raises the points stay
RunDeleteDocumentVector(t, ok) ==
    /\ t \in tasks
    /\ t.task = "delete_document_vector"
    /\ tasks' = tasks \ {t}
    /\ qdrant' = IF ok
                 THEN [qdrant EXCEPT !.documents =
                        delete_document_vector(@, t.document_id, t.organization_id)]
                 ELSE qdrant
    /\ UNCHANGED <<storeVars, ragVars, out>>

----------------------------------------------------------------------------
(* execute_agent_with_full_rag, one action per phase *)

BasePrompt == <<"B">>

FullRagRequests ==
    {[organization_id |-> "T1",
      user_id |-> "u1",
      conversation_id |-> None,
      system_prompt |-> sp,
      retrieve_documents |-> rd,
      retrieve_conversation_context |-> rc,
      document_limit |-> dl,
      message_limit |-> 1,
      context_score_threshold |-> 70,
      include_agent_system_context |-> inc] :
        sp \in {None, Some(BasePrompt)}, rd \in BOOLEAN, rc \in BOOLEAN,
        dl \in Limits, inc \in BOOLEAN}

\* the request arrives: "Initialize context variables"
FullRagBegin(req) ==
    /\ pc = "IDLE"
    /\ out = NoOut
    /\ pc' = "RETRIEVE_DOCS"
    /\ request' = req
    /\ context_documents' = <<>>
    /\ context_messages' = <<>>
    /\ enhanced_system_prompt' = req.system_prompt
    /\ phases' = <<"INIT">>
    /\ UNCHANGED <<storeVars, qdrant, tasks, calls, faults, llm_system_prompt,
                   response, out>>

\* variant of after_document_retrieval in which a raise during document
\* retrieval ends the request
after_document_retrieval_abort(failure) ==
    IF failure \in {"embed_raise", "index_raise", "store_raise"}
    THEN "FAILED" ELSE "RETRIEVE_MESSAGES"

\* where the handler goes after the document block: the helper's failure is
\* logged and the handler falls through to the conversation block
after_document_retrieval(failure) == "RETRIEVE_MESSAGES"

\* where the handler goes after the conversation block
after_message_retrieval(failure) == "ASSEMBLE"

\* variant of ShouldRetrieveDocuments that ignores the caller's flag
ShouldRetrieveDocumentsAlways(req) == TRUE

\* "if request.retrieve_documents:"
ShouldRetrieveDocuments(req) == req.retrieve_documents

\* "if request.retrieve_conversation_context:"
ShouldRetrieveMessages(req) == req.retrieve_conversation_context

\* "Retrieve document context"
FullRagRetrieveDocuments ==
    /\ pc = "RETRIEVE_DOCS"
    /\ IF ShouldRetrieveDocuments(request)
       THEN \E failure \in Failures :
            \E r \in retrieve_document_context(request.organization_id,
                        request.document_limit, request.context_score_threshold,
                        failure) :
                /\ context_documents' = r.items
                /\ calls' = [calls EXCEPT !.doc = r.calls]
                /\ faults' = [faults EXCEPT !.doc = failure]
                /\ phases' = Append(phases, "RETRIEVE_DOCS")
                /\ pc' = after_document_retrieval(failure)
       ELSE /\ phases' = Append(phases, "SKIP_DOCS")
            /\ pc' = "RETRIEVE_MESSAGES"
            /\ UNCHANGED <<context_documents, calls, faults>>
    /\ UNCHANGED <<storeVars, qdrant, tasks, request, context_messages,
                   enhanced_system_prompt, llm_system_prompt, response, out>>

\* "Retrieve conversation context"
FullRagRetrieveMessages ==
    /\ pc = "RETRIEVE_MESSAGES"
    /\ IF ShouldRetrieveMessages(request)
       THEN \E failure \in Failures :
            \E r \in retrieve_conversation_context(request.conversation_id,
                        request.user_id, request.organization_id,
                        request.message_limit, request.context_score_threshold,
                        failure) :
                /\ context_messages' = r.items
                /\ calls' = [calls EXCEPT !.msg = r.calls]
                /\ faults' = [faults EXCEPT !.msg = failure]
                /\ phases' = Append(phases, "RETRIEVE_MESSAGES")
                /\ pc' = after_message_retrieval(failure)
       ELSE /\ phases' = Append(phases, "SKIP_MESSAGES")
            /\ pc' = "ASSEMBLE"
            /\ UNCHANGED <<context_messages, calls, faults>>
    /\ UNCHANGED <<storeVars, qdrant, tasks, request, context_documents,
                   enhanced_system_prompt, llm_system_prompt, response, out>>

\* "Build enhanced system prompt with all context"
FullRagAssemble ==
    /\ pc = "ASSEMBLE"
    /\ enhanced_system_prompt' =
            AssembledPrompt(request, context_documents, context_messages)
    /\ phases' = Append(phases, "ASSEMBLE")
    /\ pc' = "GENERATE"
    /\ UNCHANGED <<storeVars, qdrant, tasks, request, context_documents,
                   context_messages, calls, faults, llm_system_prompt, response, out>>

\* "Execute agent with enhanced prompt" and the answer to the caller
FullRagGenerate ==
    /\ pc = "GENERATE"
    /\ \E llm \in LlmOutcomes :
        LET result == execute_agent(enhanced_system_prompt, llm)
            resp   == FullRagResponse(result, context_documents, context_messages)
        IN  /\ llm_system_prompt' = enhanced_system_prompt
            /\ calls' = [calls EXCEPT !.llm = @ + 1]
            /\ faults' = [faults EXCEPT !.llm = llm]
            /\ response' = resp
            /\ phases' = Append(Append(phases, "GENERATE"),
                                IF resp.status = 200 THEN "DONE" ELSE "FAILED")
            /\ pc' = IF resp.status = 200 THEN "DONE" ELSE "FAILED"
    /\ UNCHANGED <<storeVars, qdrant, tasks, request, context_documents,
                   context_messages, enhanced_system_prompt, out>>

----------------------------------------------------------------------------
(* execute_agent_with_rag (document-only RAG), one action *)

RagRequests ==
    {[organization_id |-> "T1",
      system_prompt |-> sp,
      retrieve_context |-> rc,
      context_limit |-> cl,
      context_score_threshold |-> 70] :
        sp \in {None, Some(BasePrompt)}, rc \in BOOLEAN, cl \in Limits}

\* f"{doc.title}": None prints as "None"
TitleText(title) == IF title = None THEN <<"None">> ELSE title[1]

\* f"Document: {doc.title}\\nContent: {doc.content[:500]}..." (the source
\* writes the two characters backslash and n)
RagSnippet(d) ==
    <<"Document: ">> \o TitleText(documents[d].title) \o <<"\\nContent: ">>
        \o Prefix(documents[d].content[1], 500) \o <<"...">>

\* {"id", "title", "preview"} of a retrieved row
RagContextDocument(d) ==
    [id |-> d,
     title |-> documents[d].title,
     preview |-> IF Truthy(documents[d].content)
                 THEN Prefix(documents[d].content[1], 200) ELSE <<>>]

\* context_documents and enhanced_system_prompt after the retrieval block,
\* for the rows in the order the database returned them.  Every raise inside
\* the block is caught and leaves both as they were; doc.content[:500] raises
\* on a row without content.
RagContextOf(req, failure, search_results, rows) ==
    LET unchanged == [context_documents |-> <<>>, prompt |-> req.system_prompt]
        context_text == JoinWith(<<"\\n\\n">>, MapSeq(rows, RagSnippet))
    IN  IF ~req.retrieve_context \/ ~EmbeddingOk(failure) \/ search_results = <<>>
           \/ failure = "store_raise"
           \/ (\E i \in DOMAIN rows : documents[rows[i]].content = None)
        THEN unchanged
        ELSE [context_documents |-> MapSeq(rows, RagContextDocument),
              prompt |->
                IF Truthy(req.system_prompt)
                THEN Some(req.system_prompt[1]
                          \o <<"\\n\\nContext from documents:\\n">> \o context_text)
                ELSE Some(<<"You are a helpful assistant. Use the following documents to answer questions:\\n\\n">>
                          \o context_text)]

\* the response for given search results and rows
RagResponse(req, failure, llm, search_results, rows) ==
    LET ctx    == RagContextOf(req, failure, search_results, rows)
        result == execute_agent(ctx.prompt, llm)
    IN  [op |-> "execute_agent_with_rag",
         organization_id |-> req.organization_id,
         status |-> IF result.raised THEN 500
                    ELSE IF ~result.success THEN 400 ELSE 200,
         data |-> MapSeq(ctx.context_documents, LAMBDA c : c.id),
         context_used |-> Len(ctx.context_documents) > 0,
         base_prompt |-> req.system_prompt,
         system_prompt |-> ctx.prompt,
         retrieve_context |-> req.retrieve_context,
         failure |-> failure,
         llm |-> llm]

\* the responses execute_agent_with_rag may give: the rows come back from the
\* database in an order of its choice
execute_agent_with_rag(req, failure, llm) ==
    UNION {{RagResponse(req, failure, llm, sr, rows) :
                rows \in Orderings(ActiveDocumentsOf(
                            {sr[i].document_id : i \in DOMAIN sr},
                            req.organization_id))} :
            sr \in SearchResults("documents", req.organization_id, req.context_limit,
                                 req.context_score_threshold, failure)}

\* POST /agents/execute/rag
ExecuteAgentWithRag ==
    /\ pc = "IDLE"
    /\ out = NoOut
    /\ \E req \in RagRequests, failure \in Failures, llm \in LlmOutcomes :
       \E r \in execute_agent_with_rag(req, failure, llm) :
            out' = r
    /\ UNCHANGED <<storeVars, qdrant, tasks, ragVars>>

\* POST /documents/search/semantic by a user of organization T1, served
\* while documents are deleted
SemanticSearchWhileDeleting ==
    /\ pc = "IDLE"
    /\ out = NoOut
    /\ \E limit \in Limits, failure \in Failures :
       \E r \in semantic_search_documents("T1", limit, similarity_threshold, failure) :
            out' = [op |-> "semantic_search_documents",
                    organization_id |-> "T1",
                    status |-> r.status,
                    data |-> r.data,
                    limit |-> limit,
                    failure |-> failure]
    /\ UNCHANGED <<storeVars, qdrant, tasks, ragVars>>

----------------------------------------------------------------------------
(* Specification Spec: the two RAG endpoints, one request per behaviour,    *)
(* served while documents are deleted and their vectors removed             *)

SeedScore(d) == IF d = 1 THEN 92 ELSE IF d = 2 THEN 81 ELSE 50

Init ==
    /\ documents = [d \in DocIds |->
                        DocRow("T1", TRUE, Some(Title1), None, Some(Content1))]
    /\ messages = SeedMessages
    /\ conversations = SeedConversations
    /\ qdrant \in {[documents |-> {Point(d, "T1", SeedScore(d)) : d \in DocIds},
                    conversations |-> c] : c \in {{}, {Point(1, "T1", 85)}}}
    /\ tasks = {}
    /\ RagIdle
    /\ out = NoOut

Next ==
    \/ \E req \in FullRagRequests : FullRagBegin(req)
    \/ FullRagRetrieveDocuments
    \/ FullRagRetrieveMessages
    \/ FullRagAssemble
    \/ FullRagGenerate
    \/ SemanticSearchWhileDeleting
    \/ ExecuteAgentWithRag
    \/ \E d \in DocIds : DeleteDocument(d)
    \/ \E t \in tasks, ok \in BOOLEAN : RunDeleteDocumentVector(t, ok)

Spec == Init /\ [][Next]_vars

\* a step of the full-RAG request
FullRagStep ==
    \/ FullRagRetrieveDocuments
    \/ FullRagRetrieveMessages
    \/ FullRagAssemble
    \/ FullRagGenerate

Terminal == {"DONE", "FAILED"}
RaisingFailures == {"embed_raise", "index_raise", "store_raise"}

\* the prompt holds at least one document or message snippet
HasSnippet(prompt) ==
    /\ prompt # None
    /\ \E i \in DOMAIN prompt[1] : prompt[1][i] \in {"Document: ", ": "}

----------------------------------------------------------------------------
(* Claims checked under Spec *)

\* C2: when embed_text returns the empty vector, each retrieval helper
\* returns an empty result without raising, the full-RAG handler still calls
\* the LLM, with the caller's base prompt unchanged as system prompt, and a
\* successful response reports context_used = false.
C2_EmptyEmbeddingDegrades ==
    pc # "IDLE" =>
        /\ faults.doc = "embed_empty" => context_documents = <<>>
        /\ faults.msg = "embed_empty" => context_messages = <<>>
        /\ \A r \in retrieve_document_context(request.organization_id,
                request.document_limit, request.context_score_threshold,
                "embed_empty") : r.items = <<>>
        /\ \A r \in retrieve_conversation_context(request.conversation_id,
                request.user_id, request.organization_id, request.message_limit,
                request.context_score_threshold, "embed_empty") : r.items = <<>>
        /\ (/\ faults.doc \in {"embed_empty", "-"}
            /\ faults.msg \in {"embed_empty", "-"}
            /\ pc \in {"GENERATE", "DONE", "FAILED"})
           => /\ enhanced_system_prompt = request.system_prompt
              /\ pc \in Terminal =>
                    /\ calls.llm = 1
                    /\ llm_system_prompt = request.system_prompt
                    /\ response.status = 200 => response.context_used = Some(FALSE)

\* C2's case: both retrievals ran on an empty embedding and the request
\* succeeded with a base prompt
C2_Witness ==
    /\ pc = "DONE"
    /\ faults.doc = "embed_empty"
    /\ faults.msg = "embed_empty"
    /\ request.system_prompt = Some(BasePrompt)
    /\ request.include_agent_system_context
    /\ llm_system_prompt = Some(BasePrompt)
    /\ response.context_used = Some(FALSE)

\* the state part of C3: a failed source contributes no item, both
\* retrievals have run by the time the prompt is built, message retrieval
\* returns what it returns when document retrieval does not fail, every
\* request that ends has called the LLM, and no position before the end is
\* stuck
RetrievalFailureContained ==
    pc # "IDLE" =>
        /\ faults.doc \in RaisingFailures => context_documents = <<>>
        /\ faults.msg \in RaisingFailures => context_messages = <<>>
        /\ pc \in {"ASSEMBLE", "GENERATE", "DONE", "FAILED"} =>
              /\ request.retrieve_conversation_context => calls.msg.embed = 1
              /\ request.retrieve_documents => calls.doc.embed = 1
              /\ (request.retrieve_conversation_context /\ faults.msg = "none") =>
                    context_messages \in
                        {r.items : r \in retrieve_conversation_context(
                            request.conversation_id, request.user_id,
                            request.organization_id, request.message_limit,
                            request.context_score_threshold, "none")}
        /\ pc \in Terminal =>
              /\ calls.llm = 1
              /\ response.status # 0
              /\ phases[Len(phases) - 1] = "GENERATE"
        /\ pc \in {"RETRIEVE_DOCS", "RETRIEVE_MESSAGES", "ASSEMBLE", "GENERATE"} =>
              ENABLED FullRagStep

C4_GenerationFailureIsExplicit ==
    pc \in Terminal =>
        /\ faults.llm \in {"error", "blocked", "disabled"} =>
              /\ response.status \in {400, 500}
              /\ response.detail # None
        /\ response.status = 200 => response.answer = Some(ModelText)

\* the part of C4 the code keeps: a raise of generate_content, or a disabled
\* service, ends the request in an HTTP error with the reason
C4_CallErrorIsExplicit ==
    (pc \in Terminal /\ faults.llm \in {"error", "disabled"}) =>
        /\ response.status \in {400, 500}
        /\ response.detail # None

\* C5: when the generation step fails after retrieval produced documents or
\* messages, the failure returned to the caller contains both retrieved lists.
C5_FailureCarriesRetrievedContext ==
    (pc = "FAILED" /\ (context_documents # <<>> \/ context_messages # <<>>)) =>
        /\ response.documents = Some(context_documents)
        /\ response.messages = Some(context_messages)

\* C6: a full-RAG request goes through INIT, document retrieval or its skip,
\* message retrieval or its skip, ASSEMBLE, GENERATE, in this order, and ends
\* in exactly one of DONE and FAILED; the LLM is called at most once and only
\* after both retrieval phases; a retrieval whose flag is false makes no
\* embedding, index or store call and leaves its list empty.
C6_PhaseOrder ==
    LET n == Len(phases)
        zero == [embed |-> 0, search |-> 0, store |-> 0]
    IN  /\ pc = "IDLE" <=> n = 0
        /\ n <= 6
        /\ n >= 1 => phases[1] = "INIT"
        /\ n >= 2 => /\ phases[2] \in {"RETRIEVE_DOCS", "SKIP_DOCS"}
                     /\ phases[2] = "RETRIEVE_DOCS" <=> request.retrieve_documents
                     /\ ~request.retrieve_documents =>
                            calls.doc = zero /\ context_documents = <<>>
        /\ n >= 3 => /\ phases[3] \in {"RETRIEVE_MESSAGES", "SKIP_MESSAGES"}
                     /\ phases[3] = "RETRIEVE_MESSAGES"
                            <=> request.retrieve_conversation_context
                     /\ ~request.retrieve_conversation_context =>
                            calls.msg = zero /\ context_messages = <<>>
        /\ n >= 4 => phases[4] = "ASSEMBLE"
        /\ n >= 5 => phases[5] = "GENERATE" /\ phases[6] \in Terminal /\ pc = phases[6]
        /\ pc \in Terminal <=> n = 6
        /\ calls.llm = (IF n = 6 THEN 1 ELSE 0)
        /\ pc \in Terminal => ~ENABLED FullRagStep
        /\ pc \in {"RETRIEVE_DOCS", "RETRIEVE_MESSAGES", "ASSEMBLE", "GENERATE"} =>
              ENABLED FullRagStep

\* C6's case: a request with document retrieval switched off and message
\* retrieval switched on reached DONE
C6_Witness ==
    /\ phases = <<"INIT", "SKIP_DOCS", "RETRIEVE_MESSAGES", "ASSEMBLE", "GENERATE", "DONE">>
    /\ calls.doc = [embed |-> 0, search |-> 0, store |-> 0]
    /\ calls.msg.store = 1
    /\ calls.llm = 1

\* C7: in every successful RAG response (full-RAG and document-only RAG)
\* context_used is true exactly when the prompt sent to the LLM holds at least
\* one document or message snippet, and context_used = false implies that the
\* prompt sent to the LLM is the caller's base prompt.
C7_ContextUsedIffContextInPrompt ==
    /\ pc = "DONE" =>
          /\ response.context_used[1] <=> HasSnippet(llm_system_prompt)
          /\ ~response.context_used[1] => llm_system_prompt = request.system_prompt
    /\ (out.op = "execute_agent_with_rag" /\ out.status = 200) =>
          /\ out.context_used <=> HasSnippet(out.system_prompt)
          /\ ~out.context_used => out.system_prompt = out.base_prompt

\* the part of C7 the code keeps: the full-RAG endpoint, and the
\* "exactly when" of the document-only endpoint
C7_ContextUsedIffSnippet ==
    /\ pc = "DONE" =>
          /\ response.context_used[1] <=> HasSnippet(llm_system_prompt)
          /\ ~response.context_used[1] => llm_system_prompt = request.system_prompt
    /\ (out.op = "execute_agent_with_rag" /\ out.status = 200) =>
          (out.context_used <=> HasSnippet(out.system_prompt))

----------------------------------------------------------------------------
(* hybrid_search_documents: POST /documents/search/hybrid *)

\* str.lower() on the characters the model uses
Lower(t) ==
    CASE t = "R" -> "r"
      [] t = "X" -> "x"
      [] OTHER -> t

LowerStr(s) == [i \in DOMAIN s |-> Lower(s[i])]

\* "sub in s" for strings
Contains(sub, s) ==
    \E i \in 1..(Len(s) - Len(sub) + 1) : SubSeq(s, i, i + Len(sub) - 1) = sub

\* "query_lower in doc.f.lower() if doc.f else False"
FieldMatch(query_lower, field) ==
    IF Truthy(field) THEN Contains(query_lower, LowerStr(field[1])) ELSE FALSE

\* dict.get(k, 0)
Get(f, k) == IF k \in DOMAIN f THEN f[k] ELSE 0

\* the user's documents: rows of the caller's organization that are active
UserDocuments(organization_id) ==
    {d \in DOMAIN documents :
        /\ documents[d].organization_id = organization_id
        /\ documents[d].is_active}

\* {r["document_id"]: r.get("score", 0) for r in results}; a later result
\* with the same id overwrites an earlier one
SemanticResultsOf(results) ==
    [d \in {results[i].document_id : i \in DOMAIN results} |->
        LET last == CHOOSE i \in DOMAIN results :
                        /\ results[i].document_id = d
                        /\ \A j \in DOMAIN results :
                              results[j].document_id = d => j <= i
        IN  results[last].score]

\* variant of KeywordScore with the title and summary amounts exchanged
KeywordScoreSwapped(doc, query_lower) ==
      (IF FieldMatch(query_lower, doc.title) THEN 30 ELSE 0)
    + (IF FieldMatch(query_lower, doc.summary) THEN 50 ELSE 0)
    + (IF FieldMatch(query_lower, doc.content) THEN 20 ELSE 0)

\* the keyword score of one row, in hundredths
KeywordScore(doc, query_lower) ==
      (IF FieldMatch(query_lower, doc.title) THEN 50 ELSE 0)
    + (IF FieldMatch(query_lower, doc.summary) THEN 30 ELSE 0)
    + (IF FieldMatch(query_lower, doc.content) THEN 20 ELSE 0)

\* keyword_results: one entry per user document with a match in some field
KeywordResultsOf(user_documents, query_lower) ==
    [d \in {d \in user_documents :
                \/ FieldMatch(query_lower, documents[d].title)
                \/ FieldMatch(query_lower, documents[d].content)
                \/ FieldMatch(query_lower, documents[d].summary)} |->
        KeywordScore(documents[d], query_lower)]

\* variant of combined_score that leaves the weights out
combined_score_unweighted(semantic_score, keyword_score, semantic_weight, keyword_weight) ==
    (semantic_score + keyword_score) * 100

\* combined_scores[doc_id], in 1/10000
combined_score(semantic_score, keyword_score, semantic_weight, keyword_weight) ==
    semantic_score * semantic_weight + keyword_score * keyword_weight

\* variant of PassesMinScore with a strict comparison
PassesMinScoreStrict(score, min_score) == score > min_score * 100

\* "if score >= min_score", score in 1/10000 and min_score in hundredths
PassesMinScore(score, min_score) == score >= min_score * 100

RECURSIVE SortedDescending(_, _)
\* sorted(items, key=score, reverse=True): a stable sort, items of equal
\* score keep the order they have in items
SortedDescending(items, score) ==
    IF items = <<>> THEN <<>>
    ELSE LET n    == Len(items)
             x    == items[n]
             rest == SortedDescending(SubSeq(items, 1, n - 1), score)
             k    == Cardinality({i \in DOMAIN rest : score[rest[i]] >= score[x]})
         IN  SubSeq(rest, 1, k) \o <<x>> \o SubSeq(rest, k + 1, Len(rest))

HybridResponse(status, data, semantic_results, keyword_results, combined_scores) ==
    [status |-> status, data |-> data,
     semantic_results |-> semantic_results,
     keyword_results |-> keyword_results,
     combined_scores |-> combined_scores]

\* the response for one answer of the index and one iteration order of the
\* set all_doc_ids
HybridOf(user_documents, results, query, limit, min_score, semantic_weight, keyword_weight, iteration) ==
    LET semantic_results == SemanticResultsOf(results)
        keyword_results  == KeywordResultsOf(user_documents, LowerStr(query))
        combined_scores  ==
            [d \in DOMAIN semantic_results \cup DOMAIN keyword_results |->
                combined_score(Get(semantic_results, d), Get(keyword_results, d),
                               semantic_weight, keyword_weight)]
        filtered == SelectSeq(iteration,
                        LAMBDA d : PassesMinScore(combined_scores[d], min_score))
        sorted_doc_ids == SortedDescending(filtered, combined_scores)
        ranked == SelectSeq(sorted_doc_ids, LAMBDA d : d \in user_documents)
    IN  HybridResponse(200, Prefix(ranked, limit),
                       semantic_results, keyword_results, combined_scores)

\* the responses the endpoint may give to a user of organization_id
hybrid_search_documents(organization_id, query, limit, min_score, semantic_weight, keyword_weight, failure) ==
    LET user_documents == UserDocuments(organization_id)
        empty == << >>
    IN  IF failure = "store_raise" \/ (user_documents # {} /\ failure = "embed_raise")
        THEN {HybridResponse(500, <<>>, empty, empty, empty)}
        ELSE IF user_documents = {}
        THEN {HybridResponse(200, <<>>, empty, empty, empty)}
        ELSE UNION {
                {HybridOf(user_documents, results, query, limit, min_score,
                          semantic_weight, keyword_weight, iteration) :
                    iteration \in Orderings(
                        {results[i].document_id : i \in DOMAIN results}
                        \cup DOMAIN KeywordResultsOf(user_documents, LowerStr(query)))} :
                results \in (IF EmbeddingOk(failure)
                             THEN SearchResults("documents", organization_id,
                                                limit * 2, 0, failure)
                             ELSE {<<>>})}

----------------------------------------------------------------------------
(* Specification SpecHybrid: hybrid search over every table of the rows     *)
(* HybridRows and every content of the index for the caller's organization  *)

Query == <<"R">>

\* (semantic_weight, keyword_weight) pairs, in hundredths
Weights == {<<70, 30>>, <<50, 50>>, <<100, 0>>}

\* min_score values, in hundredths
MinScores == {15, 16, 70}

\* rows of the caller's organization match the query in the title only, in
\* the content only, or nowhere; the text of the other rows is never read
HybridRows ==
    {DocRow("T1", TRUE, Some(tc[1]), None, tc[2]) :
        tc \in {<<Title1, None>>, <<(<<"x">>), Some(Content1)>>, <<(<<"x">>), None>>}}
    \cup {DocRow("T1", FALSE, Some(Title1), None, Some(Content1)),
          DocRow("T2", TRUE, Some(Title1), None, Some(Content1))}

HybridInit ==
    /\ documents \in [DocIds -> HybridRows]
    /\ messages = SeedMessages
    /\ conversations = SeedConversations
    /\ qdrant \in {[documents |-> c, conversations |-> {}] :
                    c \in {c \in Collections(DocIds) :
                            \A p \in c : p.organization_id = "T1"}}
    /\ tasks = {}
    /\ RagIdle
    /\ out = NoOut

\* POST /documents/search/hybrid by a user of organization T1
HybridSearchDocuments ==
    /\ out = NoOut
    /\ \E limit \in Limits, min_score \in MinScores, w \in Weights,
          failure \in Failures :
       \E r \in hybrid_search_documents("T1", Query, limit, min_score,
                                        w[1], w[2], failure) :
          out' = [op |-> "hybrid_search_documents",
                  organization_id |-> "T1",
                  status |-> r.status,
                  data |-> r.data,
                  limit |-> limit,
                  min_score |-> min_score,
                  failure |-> failure,
                  semantic_weight |-> w[1],
                  keyword_weight |-> w[2],
                  semantic_results |-> r.semantic_results,
                  keyword_results |-> r.keyword_results,
                  combined_scores |-> r.combined_scores]
    /\ UNCHANGED <<storeVars, qdrant, tasks, ragVars>>

HybridNext == HybridSearchDocuments

SpecHybrid == HybridInit /\ [][HybridNext]_vars

----------------------------------------------------------------------------
(* Claims checked under SpecHybrid *)

HybridAnswered == out.op = "hybrid_search_documents" /\ out.status = 200

\* the position of document d in the returned list, 0 when it is not returned
Rank(d) ==
    IF \E i \in DOMAIN out.data : out.data[i] = d
    THEN CHOOSE i \in DOMAIN out.data : out.data[i] = d
    ELSE 0

\* C8: every document id in the union of the semantic and the keyword
\* candidates gets combined_score = semantic_score * semantic_weight +
\* keyword_score * keyword_weight, a missing score counting as 0, and the
\* returned documents are in non-increasing order of combined_score.
C8_CombinedScoreAndOrder ==
    HybridAnswered =>
        LET sem == out.semantic_results
            kw  == out.keyword_results
            ids == DOMAIN sem \cup DOMAIN kw
        IN  /\ DOMAIN out.combined_scores = ids
            /\ \A d \in ids :
                  out.combined_scores[d] =
                      (IF d \in DOMAIN sem THEN sem[d] ELSE 0) * out.semantic_weight
                    + (IF d \in DOMAIN kw THEN kw[d] ELSE 0) * out.keyword_weight
            /\ \A i \in DOMAIN out.data : out.data[i] \in ids
            /\ \A i, j \in DOMAIN out.data :
                  i < j => out.combined_scores[out.data[i]]
                              >= out.combined_scores[out.data[j]]

\* C8's case: two documents are returned, the first found by both searches
\* and ranked strictly above the second
C8_Witness ==
    /\ HybridAnswered
    /\ Len(out.data) >= 2
    /\ out.data[1] \in DOMAIN out.semantic_results \cap DOMAIN out.keyword_results
    /\ out.semantic_weight = 70
    /\ out.combined_scores[out.data[1]] > out.combined_scores[out.data[2]]
    /\ out.combined_scores[out.data[2]] > 0

\* C9: returned documents of equal combined_score are in ascending order of
\* document id, so the returned sequence is a function of the store and the
\* index.
C9_TiesByAscendingId ==
    HybridAnswered =>
        \A i, j \in DOMAIN out.data :
            (i < j /\ out.combined_scores[out.data[i]] = out.combined_scores[out.data[j]])
                => out.data[i] < out.data[j]

\* C10: no returned document has combined_score below min_score; an active
\* document of the caller's organization with combined_score >= min_score is
\* returned unless limit documents ranked at or above it are returned; a
\* document matched by its title only, without a semantic hit, has combined
\* score 0.15 under the weights 0.7 / 0.3 and is returned exactly when
\* min_score <= 0.15 (and the limit has room for it).
C10_MinScoreAndLimit ==
    HybridAnswered =>
        /\ Len(out.data) <= out.limit
        /\ \A i \in DOMAIN out.data :
              /\ out.combined_scores[out.data[i]] >= out.min_score * 100
              /\ documents[out.data[i]].organization_id = out.organization_id
              /\ documents[out.data[i]].is_active
        /\ \A d \in DOMAIN out.combined_scores :
              (/\ documents[d].organization_id = out.organization_id
               /\ documents[d].is_active
               /\ out.combined_scores[d] >= out.min_score * 100
               /\ Rank(d) = 0)
              => /\ Len(out.data) = out.limit
                 /\ \A i \in DOMAIN out.data :
                       out.combined_scores[out.data[i]] >= out.combined_scores[d]
        /\ \A d \in DOMAIN out.keyword_results :
              (/\ out.keyword_results[d] = 50
               /\ d \notin DOMAIN out.semantic_results
               /\ out.semantic_weight = 70
               /\ out.keyword_weight = 30)
              => /\ out.combined_scores[d] = 1500
                 /\ Rank(d) # 0 => out.min_score <= 15
                 /\ (out.min_score <= 15 /\ Len(out.data) < out.limit) => Rank(d) # 0

\* C10's case: under the weights 0.7 / 0.3 and min_score 0.15 a document
\* matched by its title only is returned, and another candidate is cut by
\* the limit
C10_Witness ==
    /\ HybridAnswered
    /\ out.semantic_weight = 70
    /\ out.keyword_weight = 30
    /\ out.min_score = 15
    /\ Len(out.data) = out.limit
    /\ \E d \in DOMAIN out.keyword_results :
          /\ out.keyword_results[d] = 50
          /\ d \notin DOMAIN out.semantic_results
          /\ out.combined_scores[d] = 1500
          /\ Rank(d) # 0
    /\ \E d \in DOMAIN out.combined_scores :
          /\ documents[d].is_active
          /\ documents[d].organization_id = "T1"
          /\ out.combined_scores[d] >= 1500
          /\ Rank(d) = 0

\* C10's other case: the same document is left out under min_score 0.16
C10_WitnessExcluded ==
    /\ HybridAnswered
    /\ out.semantic_weight = 70
    /\ out.keyword_weight = 30
    /\ out.min_score = 16
    /\ \E d \in DOMAIN out.keyword_results :
          /\ out.keyword_results[d] = 50
          /\ d \notin DOMAIN out.semantic_results
          /\ Rank(d) = 0
    /\ out.data # <<>>

----------------------------------------------------------------------------
(* Specification SpecKeyword: hybrid search of one row over every           *)
(* combination of matching, non-matching, empty and null text columns, for  *)
(* a matching, a partly matching and the empty query                        *)

Queries == {<<"R">>, <<"X", "r">>, <<>>}

KeywordRows ==
    {DocRow(oa[1], oa[2], Some(t), sm, c) :
        oa \in {<<"T1", TRUE>>, <<"T1", FALSE>>, <<"T2", TRUE>>},
        t \in {Title1, <<"x">>},
        sm \in {None, Some(<<>>), Some(<<"r">>), Some(<<"x">>)},
        c \in {None, Some(<<>>), Some(Content1), Some(<<"x">>)}}

KeywordInit ==
    /\ documents \in [{1} -> KeywordRows]
    /\ messages = SeedMessages
    /\ conversations = SeedConversations
    /\ qdrant = [documents |-> {}, conversations |-> {}]
    /\ tasks = {}
    /\ RagIdle
    /\ out = NoOut

\* embed_text returns [] for the empty query without calling the provider,
\* so no provider failure can occur for it
QueryFailures(query) == IF query = <<>> THEN {"embed_empty"} ELSE Failures

\* POST /documents/search/hybrid?query=... by a user of organization T1
HybridSearchQuery ==
    /\ out = NoOut
    /\ \E query \in Queries, limit \in Limits, min_score \in MinScores, w \in Weights :
       \E failure \in QueryFailures(query) :
       \E r \in hybrid_search_documents("T1", query, limit, min_score,
                                        w[1], w[2], failure) :
          out' = [op |-> "hybrid_search_documents",
                  organization_id |-> "T1",
                  status |-> r.status,
                  data |-> r.data,
                  query |-> query,
                  keyword_weight |-> w[2],
                  keyword_results |-> r.keyword_results,
                  combined_scores |-> r.combined_scores]
    /\ UNCHANGED <<storeVars, qdrant, tasks, ragVars>>

KeywordNext == HybridSearchQuery

SpecKeyword == KeywordInit /\ [][KeywordNext]_vars

\* the lower-cased query is a substring of the lower-cased text
LowerSubstring(query, text) ==
    \E i \in 0..(Len(text) - Len(query)) :
        \A k \in 1..Len(query) : Lower(text[i + k]) = Lower(query[k])

\* the keyword score the documentation gives a row, from whether the query
\* counts as found in its title, its summary and its content
DocumentedKeywordScore(in_title, in_summary, in_content) ==
      (IF in_title THEN 50 ELSE 0)
    + (IF in_summary THEN 30 ELSE 0)
    + (IF in_content THEN 20 ELSE 0)

\* the keyword search ran: the caller has an active document and no
\* collaborator raised
KeywordAnswered ==
    /\ out.op = "hybrid_search_documents"
    /\ out.status = 200
    /\ UserDocuments(out.organization_id) # {}

----------------------------------------------------------------------------
(* Claims about the index threshold, checked under SpecHybrid *)

\* C12: search_similar applies the threshold and the limit it is given, 0
\* included: hybrid search, which passes score_threshold = 0, gets every point
\* of the caller's organization among the 2 * limit nearest whatever its
\* score, and the point's score enters the combined score of its document.
C12_ZeroThresholdKeepsEveryHit ==
    (HybridAnswered /\ out.failure = "none" /\ UserDocuments(out.organization_id) # {}) =>
        \A p \in qdrant.documents :
            (/\ p.organization_id = out.organization_id
             /\ Cardinality({q \in qdrant.documents :
                    /\ q # p
                    /\ q.organization_id = out.organization_id
                    /\ q.score >= p.score}) < 2 * out.limit)
            => /\ p.document_id \in DOMAIN out.semantic_results
               /\ out.semantic_results[p.document_id] = p.score
               /\ out.combined_scores[p.document_id] >= p.score * out.semantic_weight

\* what the code keeps of C12: a point of the caller's organization whose
\* score reaches the configured similarity_threshold is received
ConfiguredThresholdKeepsHit ==
    (HybridAnswered /\ out.failure = "none" /\ UserDocuments(out.organization_id) # {}) =>
        \A p \in qdrant.documents :
            (/\ p.organization_id = out.organization_id
             /\ p.score >= similarity_threshold
             /\ Cardinality({q \in qdrant.documents :
                    /\ q # p
                    /\ q.organization_id = out.organization_id
                    /\ q.score >= p.score}) < 2 * out.limit)
            => /\ p.document_id \in DOMAIN out.semantic_results
               /\ out.semantic_results[p.document_id] = p.score

----------------------------------------------------------------------------
(* Claims about retrieval during delete_document, checked under Spec *)

\* document d has a row and the row is active
ActiveRecord(d) == d \in DOMAIN documents /\ documents[d].is_active

\* C13: however document retrieval interleaves with delete_document (the
\* soft-delete commit, later the background removal of the vector), every
\* document a retrieval returns has a store record that is active in the state
\* the store lookup reads; an index hit without such a record is dropped and
\* raises no error.
C13_NoInactiveDocumentReturned ==
    /\ [][context_documents' # context_documents =>
            \A i \in DOMAIN context_documents' :
                ActiveRecord(context_documents'[i].id)]_vars
    /\ [][out' # out =>
            /\ \A i \in DOMAIN out'.data : ActiveRecord(out'.data[i])
            /\ (out'.op = "semantic_search_documents" /\ out'.failure = "none")
                  => out'.status = 200
            /\ (out'.op = "execute_agent_with_rag" /\ out'.llm = "text")
                  => out'.status = 200]_vars
    /\ [][FullRagRetrieveDocuments => pc' = "RETRIEVE_MESSAGES"]_vars

\* C13's case: document 1 is soft-deleted and its vector is still in the
\* index; a search of two hits dropped it and returned document 2 alone
C13_Witness ==
    /\ out.op = "semantic_search_documents"
    /\ out.failure = "none"
    /\ out.status = 200
    /\ out.limit = 2
    /\ out.data = <<2>>
    /\ ~documents[1].is_active
    /\ Point(1, "T1", SeedScore(1)) \in qdrant.documents

----------------------------------------------------------------------------
(* Claims about the context block, checked under Spec *)

\* how many times token t occurs in an optional text
Occurrences(t, text) ==
    IF text = None THEN 0
    ELSE Cardinality({i \in DOMAIN text[1] : text[1][i] = t})

\* the full-RAG part of C14, which the code keeps: context_documents is in
\* the index's score order and the prompt has one snippet per document
FullRagContextInScoreOrder ==
    /\ pc # "IDLE" =>
          \A i, j \in DOMAIN context_documents :
              i < j => context_documents[i].relevance_score
                          >= context_documents[j].relevance_score
    /\ pc \in Terminal =>
          /\ Occurrences("Document: ", llm_system_prompt) = Len(context_documents)
          /\ (/\ request.retrieve_documents
              /\ request.document_limit = 2
              /\ faults.doc = "none"
              /\ \A d \in {1, 2} : /\ documents[d].is_active
                                   /\ Point(d, "T1", SeedScore(d)) \in qdrant.documents)
             => /\ Len(context_documents) >= 2
                /\ context_documents[1].id = 1
                /\ context_documents[2].id = 2

\* C14: the documents put into the RAG context and reported in the response
\* are in the order of their similarity scores as the index returned them
\* (non-increasing), with one snippet per hit that resolved to an active row;
\* documents scoring 0.92 and 0.81 give two snippets in that order.  Stated
\* for the full-RAG and for the document-only endpoint.
C14_ContextInScoreOrder ==
    /\ FullRagContextInScoreOrder
    /\ (out.op = "execute_agent_with_rag" /\ out.status = 200 /\ out.context_used) =>
          /\ \A i, j \in DOMAIN out.data :
                i < j => SeedScore(out.data[i]) >= SeedScore(out.data[j])
          /\ Occurrences("Document: ", out.system_prompt) = Len(out.data)

\* the full-RAG part of C15, which the code keeps: with both lists empty the
\* prompt block is skipped and the LLM gets request.system_prompt
FullRagEmptyContextKeepsBasePrompt ==
    (/\ pc \in {"GENERATE", "DONE", "FAILED"}
     /\ context_documents = <<>>
     /\ context_messages = <<>>)
    => /\ enhanced_system_prompt = request.system_prompt
       /\ pc \in Terminal => llm_system_prompt = request.system_prompt

\* build_rag_system_prompt called with two empty groups gives back the base
\* prompt (the empty text for an absent one)
BuilderEmptyContextKeepsBasePrompt ==
    \A base_prompt \in {None, Some(BasePrompt)}, include_system_context \in BOOLEAN :
        build_rag_system_prompt(base_prompt, <<>>, <<>>, include_system_context)
            = (IF base_prompt = None THEN <<>> ELSE base_prompt[1])

\* C15: when the document group and the message group are both empty the
\* prompt sent to the LLM is the base prompt verbatim, whatever the base
\* prompt (absent included) and the preamble flag, with no header or other
\* text added; on both RAG endpoints, also when every index hit resolved to no
\* active record.
C15_EmptyContextKeepsBasePrompt ==
    /\ FullRagEmptyContextKeepsBasePrompt
    /\ (out.op = "execute_agent_with_rag" /\ out.data = <<>>) =>
          out.system_prompt = out.base_prompt

\* the position of the first occurrence of token t in a text, 0 when absent
FirstIndex(t, text) ==
    IF \E i \in DOMAIN text : text[i] = t
    THEN CHOOSE i \in DOMAIN text : text[i] = t /\ \A j \in 1..(i - 1) : text[j] # t
    ELSE 0

\* a full-RAG request ended with a non-empty context
ContextSent ==
    /\ pc \in Terminal
    /\ (context_documents # <<>> \/ context_messages # <<>>)

\* the layout part of C16, which the code keeps: a supplied base prompt comes
\* first, followed by a blank line; each non-empty group stands under its
\* header, the document group before the message group
PromptLayout ==
    ContextSent =>
        LET p == llm_system_prompt[1]
        IN  /\ request.system_prompt # None =>
                SubSeq(p, 1, Len(BasePrompt) + 1) = BasePrompt \o <<"\n\n">>
            /\ Occurrences("DOCUMENT CONTEXT:\n", llm_system_prompt)
                  = (IF context_documents # <<>> THEN 1 ELSE 0)
            /\ Occurrences("CONVERSATION CONTEXT:\n", llm_system_prompt)
                  = (IF context_messages # <<>> THEN 1 ELSE 0)
            /\ (context_documents # <<>> /\ context_messages # <<>>) =>
                  /\ FirstIndex("DOCUMENT CONTEXT:\n", p)
                        < FirstIndex("CONVERSATION CONTEXT:\n", p)
                  /\ FirstIndex("Document: ", p) < FirstIndex("CONVERSATION CONTEXT:\n", p)
                  /\ FirstIndex(": ", p) > FirstIndex("CONVERSATION CONTEXT:\n", p)
            /\ context_documents # <<>> =>
                  FirstIndex("Document: ", p) = FirstIndex("DOCUMENT CONTEXT:\n", p) + 1

\* C16: with a non-empty context, a supplied base prompt is followed by a
\* blank line and the context section (document group before message group,
\* each under its header), and the "You are a helpful assistant..." preamble
\* is in the prompt exactly when no base prompt was supplied, so that the LLM
\* always gets the base prompt or the preamble ahead of the context.
C16_BasePromptOrPreamble ==
    /\ PromptLayout
    /\ ContextSent =>
          (Occurrences(Preamble[1], llm_system_prompt) = 1
              <=> request.system_prompt = None)

----------------------------------------------------------------------------
(* Specification SpecSnippet: the full-RAG endpoint over one document and   *)
(* one message whose contents are shorter and longer than the snippet caps  *)

\* a text of n characters
TextOfLength(n) == [i \in 1..n |-> "x"]

\* content lengths below and above the 200 and 500 character slices
DocumentLengths == {2, 201, 501}

\* content lengths below and above the 300 character slice
MessageLengths == {2, 301}

SnippetInit ==
    /\ documents \in {[d \in {1} |->
                        DocRow("T1", TRUE, Some(Title1), None, Some(TextOfLength(n)))] :
                      n \in DocumentLengths}
    /\ messages \in {[m \in MsgIds |->
                        [conversation_id |-> "c1", role |-> <<"user">>,
                         content |-> TextOfLength(n)]] :
                     n \in MessageLengths}
    /\ conversations = SeedConversations
    /\ qdrant = [documents |-> {Point(1, "T1", 92)},
                 conversations |-> {Point(1, "T1", 85)}]
    /\ tasks = {}
    /\ RagIdle
    /\ out = NoOut

SnippetNext ==
    \/ \E req \in FullRagRequests : FullRagBegin(req)
    \/ FullRagStep

SpecSnippet == SnippetInit /\ [][SnippetNext]_vars

\* the text from position start is exactly expected: expected stands there
\* and the character after it, if any, is not a content character
ContentPortionIs(text, start, expected) ==
    /\ start + Len(expected) - 1 <= Len(text)
    /\ SubSeq(text, start, start + Len(expected) - 1) = expected
    /\ (start + Len(expected) <= Len(text)) => text[start + Len(expected)] # "x"

\* where the content portion of the document snippet starts: after
\* "Document: ", the title and the line break
DocumentContentStart(text) ==
    FirstIndex("Document: ", text) + Len(Title1) + 2

\* where the content portion of the message snippet starts: after "USER: "
MessageContentStart(text) == FirstIndex(": ", text) + 1

\* what the code does put into the prompt: the first 200 characters of the
\* document content (ContextDocument.preview) and the whole message content
SnippetsAsBuilt ==
    pc \in Terminal =>
        LET p == llm_system_prompt[1]
        IN  /\ context_documents # <<>> =>
                  ContentPortionIs(p, DocumentContentStart(p),
                                   Prefix(documents[1].content[1], 200))
            /\ context_messages # <<>> =>
                  ContentPortionIs(p, MessageContentStart(p), messages[1].content)

\* C17: in the prompt sent to the LLM the content portion of a document
\* snippet is the first 500 characters of the document content (all of it
\* when shorter) and the content portion of a message snippet is the first
\* 300 characters of the message content; no snippet exceeds its cap.
C17_SnippetCaps ==
    pc \in Terminal =>
        LET p == llm_system_prompt[1]
        IN  /\ context_documents # <<>> =>
                  ContentPortionIs(p, DocumentContentStart(p),
                                   Prefix(documents[1].content[1], 500))
            /\ context_messages # <<>> =>
                  ContentPortionIs(p, MessageContentStart(p),
                                   Prefix(messages[1].content, 300))

----------------------------------------------------------------------------
(* EmbeddingService and OpenAIEmbeddingProvider *)

\* longest list given to embed_texts
MaxTexts == 3

\* the texts of the model: empty, blank, or with a visible character
Texts ==
    {<<>>, <<" ">>, <<" ", " ">>, <<"a">>, <<" ", "a">>, <<"a", " ">>, <<"b">>}

RECURSIVE Strip(_)
\* str.strip()
Strip(text) ==
    IF text = <<>> THEN <<>>
    ELSE IF Head(text) = " " THEN Strip(Tail(text))
    ELSE IF text[Len(text)] = " " THEN Strip(SubSeq(text, 1, Len(text) - 1))
    ELSE text

\* variant of IsEmptyText that tests the text without stripping it
IsEmptyTextUnstripped(text) == text = <<>>

\* "not text or not text.strip()"
IsEmptyText(text) == text = <<>> \/ Strip(text) = <<>>

\* the vector the embedding model computes for a text
Embedding(text) == <<text>>

\* OpenAIEmbeddingProvider.generate_embedding: the vector, or [] when the
\* client is missing or the call raises
generate_embedding(text, provider_ok) ==
    IF provider_ok THEN Embedding(text) ELSE <<>>

\* EmbeddingService.embed_text with the number of provider calls it made
embed_text(text, provider_ok) ==
    IF IsEmptyText(text)
    THEN [result |-> <<>>, provider_calls |-> 0]
    ELSE [result |-> generate_embedding(text, provider_ok), provider_calls |-> 1]

\* sorted(response.data, key=lambda x: x.index): indexes are distinct
SortedByIndex(data) ==
    [i \in DOMAIN data |->
        LET k == CHOOSE k \in DOMAIN data : data[k].index = i IN data[k]]

\* OpenAIEmbeddingProvider.generate_embeddings: the API answers with one item
\* per input, each carrying the input's index, in the order arrival gives
generate_embeddings(texts, provider_ok, arrival) ==
    IF ~provider_ok THEN <<>>
    ELSE LET data == [k \in DOMAIN arrival |->
                        [index |-> arrival[k], embedding |-> Embedding(texts[arrival[k]])]]
         IN  MapSeq(SortedByIndex(data), LAMBDA e : e.embedding)

\* [t for t in texts if t and t.strip()]
ValidTexts(texts) == SelectSeq(texts, LAMBDA t : ~IsEmptyText(t))

\* EmbeddingService.embed_texts
embed_texts(texts, provider_ok, arrival) ==
    IF texts = <<>> \/ ValidTexts(texts) = <<>> THEN <<>>
    ELSE generate_embeddings(ValidTexts(texts), provider_ok, arrival)

----------------------------------------------------------------------------
(* Specification SpecEmbed: one call of embed_text or embed_texts *)

TextLists == UNION {[1..n -> Texts] : n \in 0..MaxTexts}

EmbedText ==
    /\ out = NoOut
    /\ \E text \in Texts, provider_ok \in BOOLEAN :
          LET r == embed_text(text, provider_ok)
          IN  out' = [op |-> "embed_text",
                      text |-> text,
                      provider_answer |-> generate_embedding(text, provider_ok),
                      result |-> r.result,
                      provider_calls |-> r.provider_calls]
    /\ UNCHANGED <<storeVars, qdrant, tasks, ragVars>>

EmbedTexts ==
    /\ out = NoOut
    /\ \E texts \in TextLists, provider_ok \in BOOLEAN :
       \E arrival \in Orderings(DOMAIN ValidTexts(texts)) :
          out' = [op |-> "embed_texts",
                  texts |-> texts,
                  provider_ok |-> provider_ok,
                  arrival |-> arrival,
                  result |-> embed_texts(texts, provider_ok, arrival)]
    /\ UNCHANGED <<storeVars, qdrant, tasks, ragVars>>

EmbedInit ==
    /\ documents = << >>
    /\ messages = SeedMessages
    /\ conversations = SeedConversations
    /\ qdrant = [documents |-> {}, conversations |-> {}]
    /\ tasks = {}
    /\ RagIdle
    /\ out = NoOut

EmbedNext == EmbedText \/ EmbedTexts

SpecEmbed == EmbedInit /\ [][EmbedNext]_vars

\* every character of the text is a blank
Blank(text) == \A i \in DOMAIN text : text[i] = " "

\* C18: embed_text of an empty or whitespace-only text returns the empty
\* vector without a call of the provider; of any other text it returns what
\* the provider returns.
C18_EmbedTextEmptyInput ==
    out.op = "embed_text" =>
        IF Blank(out.text)
        THEN out.result = <<>> /\ out.provider_calls = 0
        ELSE out.result = out.provider_answer /\ out.provider_calls = 1

\* C18's case: a whitespace-only text
C18_Witness ==
    /\ out.op = "embed_text"
    /\ out.text = <<" ", " ">>
    /\ out.result = <<>>
    /\ out.provider_calls = 0

\* C18's other case: a text with surrounding blanks goes to the provider
C18_WitnessProvider ==
    /\ out.op = "embed_text"
    /\ out.text = <<" ", "a">>
    /\ out.result = Embedding(<<" ", "a">>)

\* C19: for every list given to embed_texts, lists with empty or
\* whitespace-only texts and answers arriving out of order included, the
\* output is as long as the input and output[i] is the embedding of input[i].
C19_BatchAlignment ==
    (out.op = "embed_texts" /\ out.provider_ok) =>
        /\ Len(out.result) = Len(out.texts)
        /\ \A i \in DOMAIN out.texts :
              i \in DOMAIN out.result => out.result[i] = Embedding(out.texts[i])

\* what the code keeps of C19: the output is aligned with the non-empty
\* texts of the input, whatever the order the answers arrive in
BatchAlignedWithValidTexts ==
    (out.op = "embed_texts" /\ out.provider_ok) =>
        LET valid == SelectSeq(out.texts, LAMBDA t : ~Blank(t))
        IN  /\ Len(out.result) = Len(valid)
            /\ \A i \in DOMAIN valid : out.result[i] = Embedding(valid[i])

----------------------------------------------------------------------------
(* Request validation: the Field constraints of the two RAG request models, *)
(* applied before the handler runs                                          *)

\* user_input values: the empty text and a query
UserInputs == {<<>>, <<"q">>}

\* limits below, inside and above the range ge=1, le=20
RawLimits == {0, 1, 21}

\* thresholds inside and above the range ge=0, le=1, in hundredths
RawThresholds == {70, 150}

\* ExecuteAgentWithFullRAGRequest: user_input is any str; document_limit,
\* message_limit and context_score_threshold carry ge / le constraints
ValidFullRagRequest(req) ==
    /\ req.document_limit \in 1..20
    /\ req.message_limit \in 1..50
    /\ req.context_score_threshold \in 0..100

\* ExecuteAgentWithRAGRequest: no field carries a constraint
ValidRagRequest(req) == TRUE

RawFullRagRequests ==
    {[organization_id |-> "T1",
      user_id |-> "u1",
      conversation_id |-> None,
      user_input |-> q,
      system_prompt |-> Some(BasePrompt),
      retrieve_documents |-> rd,
      retrieve_conversation_context |-> rc,
      document_limit |-> dl,
      message_limit |-> 1,
      context_score_threshold |-> thr,
      include_agent_system_context |-> TRUE] :
        q \in UserInputs, rd \in BOOLEAN, rc \in BOOLEAN,
        dl \in RawLimits, thr \in RawThresholds}

RawRagRequests ==
    {[organization_id |-> "T1",
      user_input |-> q,
      system_prompt |-> Some(BasePrompt),
      retrieve_context |-> rc,
      context_limit |-> cl,
      context_score_threshold |-> thr] :
        q \in UserInputs, rc \in BOOLEAN, cl \in RawLimits, thr \in RawThresholds}

NoRetrieval == [items |-> <<>>, calls |-> NoCalls.doc]

\* execute_agent_with_full_rag from the first line to the response: the
\* status and the collaborator calls of every run the handler may take
full_rag_runs(req) ==
    {[status |-> FullRagResponse(
                    execute_agent(AssembledPrompt(req, d.items, c.items), llm),
                    d.items, c.items).status,
      calls  |-> [doc |-> d.calls, msg |-> c.calls, llm |-> 1]] :
        d \in (IF req.retrieve_documents
               THEN UNION {retrieve_document_context(req.organization_id,
                                req.document_limit, req.context_score_threshold, f) :
                           f \in QueryFailures(req.user_input)}
               ELSE {NoRetrieval}),
        c \in (IF req.retrieve_conversation_context
               THEN UNION {retrieve_conversation_context(req.conversation_id,
                                req.user_id, req.organization_id, req.message_limit,
                                req.context_score_threshold, f) :
                           f \in QueryFailures(req.user_input)}
               ELSE {NoRetrieval}),
        llm \in LlmOutcomes}

\* execute_agent_with_rag from the first line to the response
rag_runs(req) ==
    UNION {UNION {
        {[status |-> RagResponse(req, f, llm, sr, rows).status,
          calls  |-> [doc |-> IF req.retrieve_context
                              THEN RetrievalCalls(f, sr) ELSE NoCalls.doc,
                      msg |-> NoCalls.msg,
                      llm |-> 1]] :
            rows \in Orderings(ActiveDocumentsOf(
                        {sr[i].document_id : i \in DOMAIN sr}, req.organization_id)),
            llm \in LlmOutcomes} :
        sr \in SearchResults("documents", req.organization_id, req.context_limit,
                             req.context_score_threshold, f)} :
        f \in QueryFailures(req.user_input)}

\* the request is refused with 422 Unprocessable Entity
Rejected(op, req) ==
    [op |-> op, request |-> req, status |-> 422, calls |-> NoCalls]

\* POST /agents/execute/full-rag with any body of the right types
SubmitFullRag ==
    /\ pc = "IDLE"
    /\ out = NoOut
    /\ \E req \in RawFullRagRequests :
          IF ~ValidFullRagRequest(req)
          THEN out' = Rejected("execute_agent_with_full_rag", req)
          ELSE \E r \in full_rag_runs(req) :
                  out' = [op |-> "execute_agent_with_full_rag", request |-> req,
                          status |-> r.status, calls |-> r.calls]
    /\ UNCHANGED <<storeVars, qdrant, tasks, ragVars>>

\* POST /agents/execute/rag with any body of the right types
SubmitRag ==
    /\ pc = "IDLE"
    /\ out = NoOut
    /\ \E req \in RawRagRequests :
          IF ~ValidRagRequest(req)
          THEN out' = Rejected("execute_agent_with_rag", req)
          ELSE \E r \in rag_runs(req) :
                  out' = [op |-> "execute_agent_with_rag", request |-> req,
                          status |-> r.status, calls |-> r.calls]
    /\ UNCHANGED <<storeVars, qdrant, tasks, ragVars>>

ValidateNext == SubmitFullRag \/ SubmitRag

SpecValidate == Init /\ [][ValidateNext]_vars

\* the limit of the request, whichever model it is
LimitOf(req) ==
    IF "document_limit" \in DOMAIN req THEN req.document_limit ELSE req.context_limit

\* what the constraints of the full-RAG model do reject: a document_limit
\* outside 1..20 or a threshold outside [0, 1], before any call
FullRagRangeRejected ==
    (/\ out.op = "execute_agent_with_full_rag"
     /\ (out.request.document_limit \notin 1..20
         \/ out.request.context_score_threshold \notin 0..100))
    => out.status = 422 /\ out.calls = NoCalls

\* C20: a RAG request with invalid input (empty query text, a result limit
\* outside its range, a score threshold outside [0, 1]) is rejected with a
\* validation error before any embedding call, index search, store lookup or
\* LLM call; for the full-RAG and the document-only request.
C20_InvalidInputRejected ==
    (/\ out.op \in {"execute_agent_with_full_rag", "execute_agent_with_rag"}
     /\ (\/ out.request.user_input = <<>>
         \/ LimitOf(out.request) < 1
         \/ out.request.context_score_threshold \notin 0..100))
    => out.status = 422 /\ out.calls = NoCalls

----------------------------------------------------------------------------
(* Specification SpecConcurrent: two full-RAG requests served by one event  *)
(* loop.  A handler gives up control at its awaits (the two retrieval       *)
(* helpers and execute_agent), so the steps of the two requests interleave  *)
(* at those points.  Here pc, request, context_documents, context_messages, *)
(* enhanced_system_prompt, calls, faults, llm_system_prompt and response    *)
(* hold one value per request: they are locals of the handler's frame.      *)
(* phases is the order in which the event loop ran the requests' steps.     *)

Procs == {1, 2}

\* collaborator behaviours of the concurrent runs
ConcurrentFailures == {"none", "embed_empty", "index_raise"}
ConcurrentLlmOutcomes == {"text", "error"}

Callers == {[organization_id |-> "T1", user_id |-> "u1"],
            [organization_id |-> "T2", user_id |-> "u2"]}

ConcurrentRequests ==
    {[organization_id |-> c.organization_id,
      user_id |-> c.user_id,
      conversation_id |-> None,
      system_prompt |-> Some(BasePrompt),
      retrieve_documents |-> rd,
      retrieve_conversation_context |-> rc,
      document_limit |-> MaxLimit,
      message_limit |-> 1,
      context_score_threshold |-> 70,
      include_agent_system_context |-> TRUE] :
        c \in Callers, rd \in BOOLEAN, rc \in BOOLEAN}

\* variant of LocalOf in which the handler's context lists are module-level
\* names, one slot for every request
SharedLocalOf(p, locals) == locals[1]

\* the value a request reads from one of its locals
LocalOf(p, locals) == locals[p]

ConcurrentInit ==
    /\ documents = [d \in DocIds |->
                        DocRow(IF d = 1 THEN "T1" ELSE "T2", TRUE,
                               Some(Title1), None, Some(Content1))]
    /\ messages = SeedMessages
    /\ conversations = SeedConversations
    /\ qdrant = [documents |-> {Point(d, IF d = 1 THEN "T1" ELSE "T2", SeedScore(d)) :
                                    d \in DocIds},
                 conversations |-> {Point(1, "T1", 85)}]
    /\ tasks = {}
    /\ pc = [p \in Procs |-> "IDLE"]
    /\ request = [p \in Procs |-> NoRequest]
    /\ context_documents = [p \in Procs |-> <<>>]
    /\ context_messages = [p \in Procs |-> <<>>]
    /\ enhanced_system_prompt = [p \in Procs |-> None]
    /\ calls = [p \in Procs |-> NoCalls]
    /\ faults = [p \in Procs |-> NoFaults]
    /\ llm_system_prompt = [p \in Procs |-> None]
    /\ response = [p \in Procs |-> NoResponse]
    /\ phases = <<>>
    /\ out = NoOut

\* request p arrives: "Initialize context variables"
ConcurrentBegin(p, req) ==
    /\ pc[p] = "IDLE"
    /\ pc' = [pc EXCEPT ![p] = "RETRIEVE_DOCS"]
    /\ request' = [request EXCEPT ![p] = req]
    /\ context_documents' = [context_documents EXCEPT ![p] = <<>>]
    /\ context_messages' = [context_messages EXCEPT ![p] = <<>>]
    /\ enhanced_system_prompt' = [enhanced_system_prompt EXCEPT ![p] = req.system_prompt]
    /\ phases' = Append(phases, p)
    /\ UNCHANGED <<storeVars, qdrant, tasks, calls, faults, llm_system_prompt,
                   response, out>>

\* "Retrieve document context" of request p, up to the next await
ConcurrentRetrieveDocuments(p) ==
    /\ pc[p] = "RETRIEVE_DOCS"
    /\ IF ShouldRetrieveDocuments(request[p])
       THEN \E failure \in ConcurrentFailures :
            \E r \in retrieve_document_context(request[p].organization_id,
                        request[p].document_limit,
                        request[p].context_score_threshold, failure) :
                /\ context_documents' = [context_documents EXCEPT ![p] = r.items]
                /\ calls' = [calls EXCEPT ![p].doc = r.calls]
                /\ faults' = [faults EXCEPT ![p].doc = failure]
       ELSE UNCHANGED <<context_documents, calls, faults>>
    /\ pc' = [pc EXCEPT ![p] = "RETRIEVE_MESSAGES"]
    /\ phases' = Append(phases, p)
    /\ UNCHANGED <<storeVars, qdrant, tasks, request, context_messages,
                   enhanced_system_prompt, llm_system_prompt, response, out>>

\* "Retrieve conversation context" of request p, up to the next await
ConcurrentRetrieveMessages(p) ==
    /\ pc[p] = "RETRIEVE_MESSAGES"
    /\ IF ShouldRetrieveMessages(request[p])
       THEN \E failure \in ConcurrentFailures :
            \E r \in retrieve_conversation_context(request[p].conversation_id,
                        request[p].user_id, request[p].organization_id,
                        request[p].message_limit,
                        request[p].context_score_threshold, failure) :
                /\ context_messages' = [context_messages EXCEPT ![p] = r.items]
                /\ calls' = [calls EXCEPT ![p].msg = r.calls]
                /\ faults' = [faults EXCEPT ![p].msg = failure]
       ELSE UNCHANGED <<context_messages, calls, faults>>
    /\ pc' = [pc EXCEPT ![p] = "GENERATE"]
    /\ phases' = Append(phases, p)
    /\ UNCHANGED <<storeVars, qdrant, tasks, request, context_documents,
                   enhanced_system_prompt, llm_system_prompt, response, out>>

\* the rest of request p: the prompt is assembled from the request's context
\* lists, execute_agent is awaited on a fresh AgentContext and the answer is
\* built
ConcurrentGenerate(p) ==
    /\ pc[p] = "GENERATE"
    /\ \E llm \in ConcurrentLlmOutcomes :
        LET cdocs  == LocalOf(p, context_documents)
            cmsgs  == LocalOf(p, context_messages)
            prompt == AssembledPrompt(request[p], cdocs, cmsgs)
            resp   == FullRagResponse(execute_agent(prompt, llm), cdocs, cmsgs)
        IN  /\ enhanced_system_prompt' = [enhanced_system_prompt EXCEPT ![p] = prompt]
            /\ llm_system_prompt' = [llm_system_prompt EXCEPT ![p] = prompt]
            /\ calls' = [calls EXCEPT ![p].llm = @ + 1]
            /\ faults' = [faults EXCEPT ![p].llm = llm]
            /\ response' = [response EXCEPT ![p] = resp]
            /\ pc' = [pc EXCEPT ![p] = IF resp.status = 200 THEN "DONE" ELSE "FAILED"]
    /\ phases' = Append(phases, p)
    /\ UNCHANGED <<storeVars, qdrant, tasks, request, context_documents,
                   context_messages, out>>

ConcurrentNext ==
    \E p \in Procs :
        \/ \E req \in ConcurrentRequests : ConcurrentBegin(p, req)
        \/ ConcurrentRetrieveDocuments(p)
        \/ ConcurrentRetrieveMessages(p)
        \/ ConcurrentGenerate(p)

SpecConcurrent == ConcurrentInit /\ [][ConcurrentNext]_vars

\* the responses execute_agent_with_full_rag gives to req when it is the only
\* request in flight and the collaborators behave as f says, against the
\* current tables and index
full_rag_alone(req, f) ==
    {FullRagResponse(execute_agent(AssembledPrompt(req, d.items, c.items), f.llm),
                     d.items, c.items) :
        d \in (IF req.retrieve_documents
               THEN retrieve_document_context(req.organization_id,
                        req.document_limit, req.context_score_threshold, f.doc)
               ELSE {NoRetrieval}),
        c \in (IF req.retrieve_conversation_context
               THEN retrieve_conversation_context(req.conversation_id,
                        req.user_id, req.organization_id, req.message_limit,
                        req.context_score_threshold, f.msg)
               ELSE {NoRetrieval})}

\* C21: a RAG request, whatever its outcome, leaves the document table, the
\* message tables and the vector index unchanged, and under every
\* interleaving of two concurrent requests each response is one the request
\* gets when it runs alone against the same tables and index.
C21_RequestsAreIndependent ==
    /\ [](\A p \in Procs :
            pc[p] \in Terminal => response[p] \in full_rag_alone(request[p], faults[p]))
    /\ [][UNCHANGED <<documents, messages, conversations, qdrant>>]_vars

\* C21's case: the steps of the two requests alternated, both answered 200,
\* and each carries the context of its own caller
C21_Witness ==
    /\ phases = <<1, 2, 1, 2, 1, 2, 1, 2>>
    /\ pc[1] = "DONE" /\ pc[2] = "DONE"
    /\ request[1].organization_id = "T1" /\ request[2].organization_id = "T2"
    /\ response[1].documents[1] # <<>>
    /\ response[2].documents[1] # <<>>
    /\ response[1].messages[1] # <<>>
    /\ response[2].messages[1] = <<>>
    /\ response[1].documents # response[2].documents

----------------------------------------------------------------------------
(* QdrantService.add_document_vector as the writers of the index call it.   *)
(* A stored point is its id, its vector, the score the vector has against   *)
(* the query of the run, and the document_id and organization_id of its     *)
(* payload.  h is the value of Python's hash() on                           *)
(* the strings f"{organization_id}_{document_id}" in the running process,   *)
(* already masked with 0x7fffffff.                                          *)

\* the similarity a stored vector has against the query of the run: the
\* query is one that is close to every text of the model
Similarity(vector) == 92

\* parameters of add_document_vector without a default value
RequiredParameters ==
    {"collection_name", "document_id", "vector", "metadata", "organization_id"}

\* a call binds when every parameter without a default gets an argument;
\* otherwise Python raises TypeError at the call
Binds(kwargs) == RequiredParameters \subseteq DOMAIN kwargs

\* {**base, **metadata}: a key of metadata replaces the same key of base
Merge(base, metadata) ==
    [k \in DOMAIN base \cup DOMAIN metadata |->
        IF k \in DOMAIN metadata THEN metadata[k] ELSE base[k]]

\* PointStruct(id=hash(f"{organization_id}_{document_id}") & 0x7fffffff,
\*             vector=vector, payload={..., **metadata})
PointStruct(h, kwargs) ==
    LET payload == Merge([document_id |-> kwargs.document_id,
                          organization_id |-> kwargs.organization_id],
                         kwargs.metadata)
    IN  [id |-> h[<<kwargs.organization_id, kwargs.document_id>>],
         vector |-> kwargs.vector,
         score |-> Similarity(kwargs.vector),
         document_id |-> payload.document_id,
         organization_id |-> payload.organization_id]

\* client.upsert: the point takes the place of the point of the same id
Upsert(collection, point) == {q \in collection : q.id # point.id} \cup {point}

\* add_document_vector; when the client raises, False is returned and the
\* collection is as before
add_document_vector(collection, h, kwargs, client_ok) ==
    IF client_ok THEN Upsert(collection, PointStruct(h, kwargs)) ELSE collection

\* a process in which hash() gives every string its own value
IdealHash(keys) == [k \in keys |-> k]

----------------------------------------------------------------------------
(* create_message and index_message_vector (conversations.py) *)

NewMessageIds == {2, 3}
Roles == {<<"user">>, <<"assistant">>, <<"system">>}
MessageTexts == {<<" ">>, <<"a">>, <<"a", " ">>, <<" ", "a">>, <<"b">>}

\* MessageCreate as pydantic builds it from a valid body: content (at least
\* one character), role, metadata, and no other attribute
MessageCreates ==
    {[content |-> c, role |-> r, metadata |-> None] :
        c \in MessageTexts, r \in Roles}

\* reading obj.name raises AttributeError when the object has no such field
HasAttr(obj, name) == name \in DOMAIN obj

\* create_message from the first line to the response: the tables, the
\* scheduled tasks and the status after the handler
create_message(conversation_id, current_user, message_data, new_id) ==
    LET unchanged == [messages |-> messages, conversations |-> conversations,
                      tasks |-> tasks]
    IN  IF conversation_id \notin DOMAIN conversations
        THEN unchanged @@ [status |-> 404]
        ELSE IF conversations[conversation_id].user_id # current_user.user_id
        THEN unchanged @@ [status |-> 403]
        ELSE IF message_data.role \notin {<<"user">>, <<"assistant">>}
        THEN unchanged @@ [status |-> 400]
        ELSE IF ~HasAttr(message_data, "tokens_used")
                \/ ~HasAttr(message_data, "processing_time_ms")
        THEN unchanged @@ [status |-> 500]
        ELSE [messages |-> (new_id :> [conversation_id |-> conversation_id,
                                       role |-> message_data.role,
                                       content |-> message_data.content])
                            @@ messages,
              conversations |-> [conversations EXCEPT
                                    ![conversation_id].message_count = @ + 1],
              tasks |-> tasks \cup {[task |-> "index_message_vector",
                                     message_id |-> new_id,
                                     content |-> message_data.content,
                                     conversation_id |-> conversation_id,
                                     user_id |-> current_user.user_id,
                                     organization_id |-> current_user.organization_id]},
              status |-> 200]

\* index_message_vector: the "conversations" collection after the task
index_message_vector(collection, h, args, provider_ok, client_ok) ==
    LET embedding == embed_text(args.content, provider_ok).result
        kwargs == [collection_name |-> "conversations",
                   document_id |-> args.message_id,
                   vector |-> embedding,
                   metadata |-> [conversation_id |-> args.conversation_id,
                                 user_id |-> args.user_id,
                                 organization_id |-> args.organization_id]]
    IN  IF embedding = <<>> THEN collection
        ELSE IF ~Binds(kwargs) THEN collection
        ELSE add_document_vector(collection, h, kwargs, client_ok)

----------------------------------------------------------------------------
(* Specification SpecMessages: one create_message request, or one run of    *)
(* index_message_vector on the arguments create_message schedules it with   *)

MessagesInit ==
    /\ documents = <<>>
    /\ messages = SeedMessages
    /\ conversations = [c \in ConvIds |-> [user_id |-> "u1", message_count |-> 1]]
    /\ qdrant = [documents |-> {}, conversations |-> {}]
    /\ tasks = {}
    /\ RagIdle
    /\ out = NoOut

\* POST /conversations/{conversation_id}/messages/
CreateMessage ==
    /\ out = NoOut
    /\ \E conversation_id \in ConvIds \cup {"c9"}, current_user \in Callers,
          message_data \in MessageCreates,
          new_id \in NewMessageIds \ DOMAIN messages :
        LET r == create_message(conversation_id, current_user, message_data, new_id)
        IN  /\ messages' = r.messages
            /\ conversations' = r.conversations
            /\ tasks' = r.tasks
            /\ out' = [op |-> "create_message", status |-> r.status,
                       conversation_id |-> conversation_id,
                       current_user |-> current_user,
                       message_data |-> message_data]
    /\ UNCHANGED <<documents, qdrant, ragVars>>

\* the background task function, run to its end
IndexMessageVector ==
    /\ out = NoOut
    /\ \E message_id \in NewMessageIds, content \in MessageTexts,
          current_user \in Callers, provider_ok \in BOOLEAN, client_ok \in BOOLEAN :
        LET args == [message_id |-> message_id, content |-> content,
                     conversation_id |-> "c1",
                     user_id |-> current_user.user_id,
                     organization_id |-> current_user.organization_id]
        IN  /\ qdrant' = [qdrant EXCEPT !.conversations =
                            index_message_vector(@, IdealHash(Orgs \X NewMessageIds),
                                                 args, provider_ok, client_ok)]
            /\ out' = [op |-> "index_message_vector", args |-> args,
                       provider_ok |-> provider_ok, client_ok |-> client_ok]
    /\ UNCHANGED <<storeVars, tasks, ragVars>>

MessagesNext == CreateMessage \/ IndexMessageVector

SpecMessages == MessagesInit /\ [][MessagesNext]_vars

\* create_message stores no message and schedules no task: MessageCreate has
\* no tokens_used field, so building the Message row raises
CreateMessageStoresNothing ==
    /\ messages = SeedMessages
    /\ tasks = {}
    /\ out.op = "create_message" => out.status \in {403, 404, 400, 500}

\* index_message_vector never writes: its add_document_vector call lacks the
\* organization_id argument
IndexMessageVectorWritesNothing == qdrant.conversations = {}

\* C22: after create_message committed a message with non-blank content and
\* its indexing task ran with a working embedding provider and a reachable
\* index, the "conversations" collection holds an entry for the message id
\* tagged with the author's organization.
C22_MessageIndexed ==
    (/\ out.op = "index_message_vector"
     /\ ~Blank(out.args.content)
     /\ out.provider_ok
     /\ out.client_ok)
    => \E q \in qdrant.conversations :
            /\ q.document_id = out.args.message_id
            /\ q.organization_id = out.args.organization_id

----------------------------------------------------------------------------
(* Document lifecycle (documents.py): create, update, delete and restore    *)
(* requests of an admin of the document's organization, and the background  *)
(* tasks they schedule.  A task carries the arguments it was scheduled      *)
(* with; scheduled tasks of different requests complete in any order.  The  *)
(* index is reachable; the embedding provider may fail.                     *)

LifecycleDocIds == {1}
LifecycleContents == {<<"c">>, <<"C">>}

\* background tasks scheduled and not yet run, at most
MaxPending == 2

Admin == [organization_id |-> "T1", user_id |-> "u1"]

\* a row of the documents table with its description column
LifecycleRow(org, active, title, description, content) ==
    DocRow(org, active, Some(title), None, content) @@ [description |-> description]

\* DocumentCreate bodies
DocumentCreates ==
    {[title |-> <<"t">>, description |-> None, content |-> c] :
        c \in {None, Some(<<"c">>)}}

\* DocumentUpdate bodies: a field that is None is left as it is
DocumentUpdates ==
    {[title |-> Some(<<"T">>), description |-> None, content |-> None],
     [title |-> None, description |-> Some(<<"d">>), content |-> None]}
    \cup {[title |-> None, description |-> None, content |-> Some(c)] :
        c \in LifecycleContents}

\* the text embed_document embeds: " ".join([title, content[:1000], metadata])
\* without the parts that are empty; description None arrives as ""
embed_document_text(title, content, description) ==
    JoinWith(<<" ">>,
        <<title>>
        \o (IF Truthy(content) THEN <<Prefix(content[1], 1000)>> ELSE <<>>)
        \o (IF Truthy(description) THEN <<description[1]>> ELSE <<>>))

\* EmbeddingService.embed_document
embed_document(title, content, description, provider_ok) ==
    embed_text(embed_document_text(title, content, description), provider_ok).result

\* the task create_document and update_document schedule for a row
IndexTask(d, row) ==
    [task |-> "index_document_vector",
     document_id |-> d,
     title |-> row.title[1],
     content |-> row.content,
     organization_id |-> row.organization_id,
     description |-> row.description]

\* index_document_vector: the "documents" collection after the task
index_document_vector(collection, h, args, provider_ok, client_ok) ==
    LET embedding == embed_document(args.title, args.content, args.description,
                                    provider_ok)
        kwargs == [collection_name |-> "documents",
                   document_id |-> args.document_id,
                   vector |-> embedding,
                   metadata |-> [title |-> args.title, type |-> "document",
                                 description |-> args.description],
                   organization_id |-> args.organization_id]
    IN  IF embedding = <<>> THEN collection
        ELSE IF ~Binds(kwargs) THEN collection
        ELSE add_document_vector(collection, h, kwargs, client_ok)

\* create_document: the table and the tasks after the handler
create_document(d, data, current_user) ==
    LET row == LifecycleRow(current_user.organization_id, TRUE, data.title,
                            data.description, data.content)
    IN  [documents |-> (d :> row) @@ documents,
         tasks |-> tasks \cup {IndexTask(d, row)},
         status |-> 200]

\* update_document: the re-index task is scheduled when the body has a
\* content and it differs from the stored one
update_document(d, data) ==
    IF d \notin DOMAIN documents
    THEN [documents |-> documents, tasks |-> tasks, status |-> 404]
    ELSE LET old == documents[d]
             content_changed == data.content # None /\ data.content # old.content
             row == [old EXCEPT
                        !.title = IF data.title # None THEN data.title ELSE @,
                        !.description = IF data.description # None
                                        THEN data.description ELSE @,
                        !.content = IF data.content # None THEN data.content ELSE @]
         IN  [documents |-> [documents EXCEPT ![d] = row],
              tasks |-> IF content_changed THEN tasks \cup {IndexTask(d, row)}
                        ELSE tasks,
              status |-> 200]

\* delete_document: soft delete, then the vector removal is scheduled
delete_document(d) ==
    IF d \notin DOMAIN documents
    THEN [documents |-> documents, tasks |-> tasks, status |-> 404]
    ELSE [documents |-> [documents EXCEPT ![d].is_active = FALSE],
          tasks |-> tasks \cup {[task |-> "delete_document_vector",
                                 document_id |-> d,
                                 organization_id |-> documents[d].organization_id]},
          status |-> 200]

\* restore_document: the row is active again; nothing is scheduled
restore_document(d) ==
    IF d \notin DOMAIN documents
    THEN [documents |-> documents, tasks |-> tasks, status |-> 404]
    ELSE [documents |-> [documents EXCEPT ![d].is_active = TRUE],
          tasks |-> tasks,
          status |-> 200]

----------------------------------------------------------------------------
(* Specification SpecLifecycle.  out is the last request that was answered. *)
(* phases records how far the behaviour is into "soft delete, vector        *)
(* removed by the task, restore": it is the part of that sequence that has  *)
(* just happened, and <<>> after anything else.                             *)

RemovalAndRestore == <<"delete_document", "vector_removed", "restore_document">>

Progress(log, event) ==
    IF Len(log) < 3 /\ event = RemovalAndRestore[Len(log) + 1]
    THEN Append(log, event)
    ELSE IF event = RemovalAndRestore[1] THEN <<event>>
    ELSE <<>>

LifecycleInit ==
    /\ documents = <<>>
    /\ messages = SeedMessages
    /\ conversations = SeedConversations
    /\ qdrant = [documents |-> {}, conversations |-> {}]
    /\ tasks = {}
    /\ pc = "IDLE"
    /\ request = NoRequest
    /\ context_documents = <<>>
    /\ context_messages = <<>>
    /\ enhanced_system_prompt = None
    /\ calls = NoCalls
    /\ phases = <<>>
    /\ faults = NoFaults
    /\ llm_system_prompt = None
    /\ response = NoResponse
    /\ out = NoOut

lifecycleFrame == <<messages, conversations, pc, request, context_documents,
                    context_messages, enhanced_system_prompt, calls, faults,
                    llm_system_prompt, response>>

\* a request was answered with r
Answered(op, d, r) ==
    /\ documents' = r.documents
    /\ tasks' = r.tasks
    /\ out' = [op |-> op, document_id |-> d, status |-> r.status]
    /\ Cardinality(r.tasks) <= MaxPending
    /\ phases' = Progress(phases, op)
    /\ UNCHANGED <<qdrant, lifecycleFrame>>

CreateDocument ==
    \E d \in LifecycleDocIds \ DOMAIN documents, data \in DocumentCreates :
        Answered("create_document", d, create_document(d, data, Admin))

UpdateDocument ==
    \E d \in LifecycleDocIds, data \in DocumentUpdates :
        Answered("update_document", d, update_document(d, data))

DeleteDocumentRequest ==
    \E d \in LifecycleDocIds :
        Answered("delete_document", d, delete_document(d))

RestoreDocument ==
    \E d \in LifecycleDocIds :
        Answered("restore_document", d, restore_document(d))

\* a scheduled index task runs to its end
RunIndexDocumentVector ==
    \E t \in tasks, provider_ok \in BOOLEAN :
        /\ t.task = "index_document_vector"
        /\ tasks' = tasks \ {t}
        /\ qdrant' = [qdrant EXCEPT !.documents =
                        index_document_vector(@, IdealHash(Orgs \X LifecycleDocIds),
                                              t, provider_ok, TRUE)]
        /\ phases' = Progress(phases, "index_document_vector")
        /\ UNCHANGED <<documents, out, lifecycleFrame>>

\* a scheduled removal task runs to its end
RunRemoveDocumentVector ==
    \E t \in tasks :
        /\ t.task = "delete_document_vector"
        /\ tasks' = tasks \ {t}
        /\ qdrant' = [qdrant EXCEPT !.documents =
                        delete_document_vector(@, t.document_id, t.organization_id)]
        /\ phases' = Progress(phases,
                        IF \E q \in qdrant.documents : q.document_id = t.document_id
                        THEN "vector_removed" ELSE "no_vector")
        /\ UNCHANGED <<documents, out, lifecycleFrame>>

LifecycleNext ==
    \/ CreateDocument
    \/ UpdateDocument
    \/ DeleteDocumentRequest
    \/ RestoreDocument
    \/ RunIndexDocumentVector
    \/ RunRemoveDocumentVector

\* every scheduled background task is run
SpecLifecycle ==
    /\ LifecycleInit
    /\ [][LifecycleNext]_vars
    /\ WF_vars(RunIndexDocumentVector)
    /\ WF_vars(RunRemoveDocumentVector)

\* the points the "documents" collection holds for document d
PointsOf(d) == {q \in qdrant.documents : q.document_id = d}

\* the vector embed_document computes from the row as it is stored now
CurrentVector(d) ==
    embed_document(documents[d].title[1], documents[d].content,
                   documents[d].description, TRUE)

\* a search by a user of the document's organization returns document d:
\* through semantic_search_documents or through retrieve_document_context
Retrievable(d) ==
    /\ d \in DOMAIN documents
    /\ \/ \E r \in semantic_search_documents(documents[d].organization_id,
                        NumDocs, similarity_threshold, "none") :
            \E i \in DOMAIN r.data : r.data[i] = d
       \/ \E r \in retrieve_document_context(documents[d].organization_id,
                        NumDocs, similarity_threshold, "none") :
            \E i \in DOMAIN r.items : r.items[i].id = d

\* an indexed active document is found by both searches
IndexedActiveDocumentRetrievable ==
    \A d \in DOMAIN documents :
        (documents[d].is_active /\ PointsOf(d) # {}) => Retrievable(d)

\* the index holds at most one point per document
OnePointPerDocument ==
    \A d \in LifecycleDocIds : Cardinality(PointsOf(d)) <= 1

\* C23: after delete_document returned and every background task scheduled
\* before or by it has completed, in any completion order, the "documents"
\* collection holds no entry for the deleted document.
C23_NoEntryAfterDelete ==
    (out.op = "delete_document" /\ out.status = 200 /\ tasks = {})
        => PointsOf(out.document_id) = {}

\* C24: after create_document and update_document calls on an active
\* document, once every scheduled index task has completed, in any order,
\* the document's index entry was computed from the title, description and
\* content the row has now.
C24_IndexEntryIsCurrent ==
    (/\ out.op \in {"create_document", "update_document"}
     /\ out.status = 200
     /\ documents[out.document_id].is_active
     /\ tasks = {})
    => \A q \in PointsOf(out.document_id) : q.vector = CurrentVector(out.document_id)

\* C27: a document that was soft-deleted, whose vector the background task
\* removed and that was then restored is eventually retrievable by semantic
\* search and RAG document retrieval, with no further update of its content.
C27_RestoredDocumentRetrievable ==
    \A d \in LifecycleDocIds :
        (phases = RemovalAndRestore /\ out.document_id = d /\ tasks = {})
            ~> Retrievable(d)

----------------------------------------------------------------------------
(* Specification SpecPoints: the writers of the index, add_document_vector  *)
(* and batch_add_vectors, called for the same collection by the serving     *)
(* process.  Here pc is that process: the value hash() has in it for every  *)
(* key string, masked to the id range.  String hashing is seeded when the   *)
(* interpreter starts, so a restarted process has another function; the     *)
(* collection lives in the index service and survives the restart.          *)

\* the id range of the model, in place of 0 .. 0x7fffffff
HashRange == 2

\* (organization_id, document_id) pairs that are written
PointKeys == {<<"T1", 1>>, <<"T1", 2>>, <<"T2", 1>>}

HashFunctions == [PointKeys -> 0..(HashRange - 1)]

\* the embedding the caller computed for the document of a key
VectorOf(k) == <<k[1], k[2]>>

\* caller-supplied metadata maps: without and with keys the payload has
Metadatas ==
    {[title |-> <<"t">>],
     [title |-> <<"t">>, organization_id |-> "T2"],
     [title |-> <<"t">>, document_id |-> 2]}

RECURSIVE UpsertAll(_, _)
\* client.upsert(points=[...]): the points are written in list order
UpsertAll(collection, points) ==
    IF points = <<>> THEN collection
    ELSE UpsertAll(Upsert(collection, Head(points)), Tail(points))

\* batch_add_vectors; v.get('metadata', {}) of an entry without metadata is {}
batch_add_vectors(collection, h, vectors_data, organization_id, client_ok) ==
    IF ~client_ok THEN collection
    ELSE UpsertAll(collection,
            [i \in DOMAIN vectors_data |->
                PointStruct(h, [document_id |-> vectors_data[i].id,
                                vector |-> vectors_data[i].vector,
                                metadata |-> vectors_data[i].metadata,
                                organization_id |-> organization_id])])

\* the vectors_data lists of the model: one or two documents of one
\* organization
VectorsData(organization_id) ==
    LET docs == {k[2] : k \in {x \in PointKeys : x[1] = organization_id}}
        entry(d, md) == [id |-> d, vector |-> VectorOf(<<organization_id, d>>),
                         metadata |-> md]
        plain == [title |-> <<"t">>]
    IN  {<<entry(d, md)>> : d \in docs, md \in Metadatas}
        \cup UNION {{<<entry(d, plain), entry(e, plain)>> : e \in docs \ {d}} :
                        d \in docs}

PointsInit ==
    /\ documents = <<>>
    /\ messages = SeedMessages
    /\ conversations = SeedConversations
    /\ qdrant = [documents |-> {}, conversations |-> {}]
    /\ tasks = {}
    /\ pc \in HashFunctions
    /\ request = NoRequest
    /\ context_documents = <<>>
    /\ context_messages = <<>>
    /\ enhanced_system_prompt = None
    /\ calls = NoCalls
    /\ phases = <<>>
    /\ faults = NoFaults
    /\ llm_system_prompt = None
    /\ response = NoResponse
    /\ out = NoOut

pointsFrame == <<storeVars, tasks, request, context_documents, context_messages,
                 enhanced_system_prompt, calls, phases, faults,
                 llm_system_prompt, response>>

AddDocumentVector ==
    \E k \in PointKeys, metadata \in Metadatas, client_ok \in BOOLEAN :
        LET kwargs == [collection_name |-> "documents",
                       document_id |-> k[2],
                       vector |-> VectorOf(k),
                       metadata |-> metadata,
                       organization_id |-> k[1]]
        IN  /\ qdrant' = [qdrant EXCEPT !.documents =
                            add_document_vector(@, pc, kwargs, client_ok)]
            /\ out' = [op |-> "add_document_vector", keys |-> {k},
                       client_ok |-> client_ok]
            /\ UNCHANGED <<pc, pointsFrame>>

BatchAddVectors ==
    \E organization_id \in Orgs, client_ok \in BOOLEAN :
    \E vectors_data \in VectorsData(organization_id) :
        /\ qdrant' = [qdrant EXCEPT !.documents =
                        batch_add_vectors(@, pc, vectors_data, organization_id,
                                          client_ok)]
        /\ out' = [op |-> "batch_add_vectors",
                   keys |-> {<<organization_id, vectors_data[i].id>> :
                                i \in DOMAIN vectors_data},
                   client_ok |-> client_ok]
        /\ UNCHANGED <<pc, pointsFrame>>

\* the server process is restarted
Restart ==
    /\ pc' \in HashFunctions \ {pc}
    /\ out' = [op |-> "restart", keys |-> {}, client_ok |-> TRUE]
    /\ UNCHANGED <<qdrant, pointsFrame>>

PointsNext == AddDocumentVector \/ BatchAddVectors \/ Restart

SpecPoints == PointsInit /\ [][PointsNext]_vars

\* no other key of the same call has the point id of k
AloneInCall(k) == \A j \in out.keys : pc[j] = pc[k] => j = k

\* the call that was just made wrote its points
Wrote == out.op \in {"add_document_vector", "batch_add_vectors"} /\ out.client_ok

\* every written point has the id the process's hash gives to the key in the
\* arguments, and ids are in the id range
PointIdIsMaskedHash ==
    /\ \A q \in qdrant.documents : q.id \in 0..(HashRange - 1)
    /\ Wrote =>
        \A k \in out.keys : \E q \in qdrant.documents : q.id = pc[k]

\* C25: two different (organization_id, document_id) pairs never get the
\* same point id, so a write for one document never replaces the stored
\* vector of another document or tenant, and writing the same pair again
\* replaces its single entry instead of adding a second one.
C25_PointIdsDoNotCollide ==
    /\ [][Wrote' =>
            \A q \in qdrant.documents :
                (\A k \in out'.keys : q.vector # VectorOf(k))
                    => q \in qdrant'.documents]_vars
    /\ [](Wrote =>
            \A k \in out.keys :
                Cardinality({q \in qdrant.documents : q.vector = VectorOf(k)}) = 1)

\* C26: every entry written by add_document_vector or batch_add_vectors has
\* in its payload the organization_id and document_id passed as arguments,
\* whatever keys the caller's metadata map has.  (Of two entries of one batch
\* with the same point id only the later one is stored; the statement is
\* about the entries that are.)
C26_PayloadCarriesArguments ==
    Wrote =>
        \A k \in {j \in out.keys : AloneInCall(j)} :
            \E q \in qdrant.documents :
                /\ q.id = pc[k]
                /\ q.organization_id = k[1]
                /\ q.document_id = k[2]

----------------------------------------------------------------------------
(* Specification SpecConversation: one call of                              *)
(* retrieve_conversation_context over message tables in which the caller    *)
(* has two conversations and another user of the organization has one       *)

ConversationOwners == [c1 |-> "u1", c2 |-> "u1", c3 |-> "u2"]
IndexedMessageIds == {1, 2}

ConversationInit ==
    /\ documents = <<>>
    /\ messages \in [IndexedMessageIds ->
                        {[conversation_id |-> c, role |-> <<"user">>,
                          content |-> <<"x", "r">>] : c \in DOMAIN ConversationOwners}]
    /\ conversations = [c \in DOMAIN ConversationOwners |->
                            [user_id |-> ConversationOwners[c]]]
    /\ qdrant = [documents |-> {},
                 conversations |-> {Point(m, "T1", 90 + m) : m \in IndexedMessageIds}]
    /\ tasks = {}
    /\ RagIdle
    /\ out = NoOut

RetrieveConversationContext ==
    /\ out = NoOut
    /\ \E conversation_id \in {None, Some("c1"), Some("c2")}, user_id \in Users,
          limit \in Limits, failure \in Failures :
       \E r \in retrieve_conversation_context(conversation_id, user_id, "T1",
                                              limit, similarity_threshold, failure) :
            out' = [op |-> "retrieve_conversation_context",
                    conversation_id |-> conversation_id,
                    user_id |-> user_id,
                    limit |-> limit,
                    failure |-> failure,
                    items |-> r.items]
    /\ UNCHANGED <<storeVars, qdrant, tasks, ragVars>>

ConversationNext == RetrieveConversationContext

SpecConversation == ConversationInit /\ [][ConversationNext]_vars

\* every returned message is of a conversation of the requesting user
OnlyOwnConversations ==
    out.op = "retrieve_conversation_context" =>
        \A i \in DOMAIN out.items :
            conversations[out.items[i].conversation_id].user_id = out.user_id

\* C28: retrieve_conversation_context returns only messages whose
\* conversation is owned by the requesting user, and with a conversation_id
\* only messages of that conversation, never messages of the user's other
\* conversations.
C28_OnlyRequestedConversation ==
    out.op = "retrieve_conversation_context" =>
        \A i \in DOMAIN out.items :
            /\ conversations[out.items[i].conversation_id].user_id = out.user_id
            /\ out.conversation_id # None
                => out.items[i].conversation_id = out.conversation_id[1]

----------------------------------------------------------------------------
(* Specification SpecCounter: create_message and delete_message requests on *)
(* one conversation, served by two workers that share the database.  A      *)
(* handler loads the conversation (and the message) into its session, then  *)
(* writes the counter it computed from the loaded value and commits; the    *)
(* two workers' loads and commits interleave.  Here pc and request hold one *)
(* value per worker; request is what the worker's session has loaded.       *)

\* messages of the conversation at the start
MaxMessages == 3

CounterMessageIds == 1..MaxMessages

CounterInit ==
    /\ documents = <<>>
    /\ messages = [m \in CounterMessageIds |->
                    [conversation_id |-> "c1", role |-> <<"user">>,
                     content |-> <<"a">>]]
    /\ conversations = [c \in ConvIds |->
                            [user_id |-> "u1", message_count |-> MaxMessages]]
    /\ qdrant = [documents |-> {}, conversations |-> {}]
    /\ tasks = {}
    /\ pc = [p \in Procs |-> "IDLE"]
    /\ request = [p \in Procs |-> NoRequest]
    /\ context_documents = <<>>
    /\ context_messages = <<>>
    /\ enhanced_system_prompt = None
    /\ calls = NoCalls
    /\ phases = <<>>
    /\ faults = NoFaults
    /\ llm_system_prompt = None
    /\ response = [p \in Procs |-> NoResponse]
    /\ out = NoOut

counterFrame == <<documents, qdrant, context_documents, context_messages,
                  enhanced_system_prompt, calls, phases, faults,
                  llm_system_prompt, out>>

\* the messages stored for a conversation
MessagesOf(conversation_id) ==
    {m \in DOMAIN messages : messages[m].conversation_id = conversation_id}

\* the table without the row of message_id
WithoutMessage(message_id) ==
    [m \in DOMAIN messages \ {message_id} |-> messages[m]]

\* delete_message up to "if not message": the handler of worker p has the
\* conversation and the message in its session, or has answered 404 or 403
DeleteMessageLoad(p) ==
    /\ pc[p] \in {"IDLE", "DONE"}
    /\ \E conversation_id \in ConvIds, message_id \in CounterMessageIds,
          current_user \in Callers :
        LET status ==
                IF conversation_id \notin DOMAIN conversations THEN 404
                ELSE IF conversations[conversation_id].user_id # current_user.user_id
                THEN 403
                ELSE IF message_id \notin MessagesOf(conversation_id) THEN 404
                ELSE 0
        IN  /\ pc' = [pc EXCEPT ![p] = IF status = 0 THEN "LOADED" ELSE "DONE"]
            /\ request' = [request EXCEPT ![p] =
                    [organization_id |-> current_user.organization_id,
                     conversation_id |-> conversation_id,
                     message_id |-> message_id,
                     message_count |-> conversations[conversation_id].message_count]]
            /\ response' = [response EXCEPT ![p] = [NoResponse EXCEPT !.status = status]]
    /\ UNCHANGED <<messages, conversations, tasks, counterFrame>>

\* delete_message from "db.delete(message)" to the response: the row is
\* deleted, the counter is written from the value the session loaded, the
\* transaction commits and the vector removal is scheduled.  When another
\* worker has deleted the row meanwhile the DELETE matches no row: the
\* flush either goes on or raises, and then nothing is written.
DeleteMessageCommit(p) ==
    /\ pc[p] = "LOADED"
    /\ \E flush_ok \in {TRUE} \cup {request[p].message_id \in DOMAIN messages} :
        IF flush_ok
        THEN /\ messages' = WithoutMessage(request[p].message_id)
             /\ conversations' = [conversations EXCEPT
                    ![request[p].conversation_id].message_count =
                        IF request[p].message_count - 1 > 0
                        THEN request[p].message_count - 1 ELSE 0]
             /\ tasks' = tasks \cup {[task |-> "delete_message_vector",
                                      message_id |-> request[p].message_id,
                                      organization_id |-> request[p].organization_id]}
             /\ response' = [response EXCEPT ![p] = [NoResponse EXCEPT !.status = 200]]
        ELSE /\ response' = [response EXCEPT ![p] = [NoResponse EXCEPT !.status = 500]]
             /\ UNCHANGED <<messages, conversations, tasks>>
    /\ pc' = [pc EXCEPT ![p] = "DONE"]
    /\ UNCHANGED <<request, counterFrame>>

\* POST .../messages/ served by worker p, from the first line to the
\* response
CreateMessageRequest(p) ==
    /\ pc[p] \in {"IDLE", "DONE"}
    /\ \E conversation_id \in ConvIds, current_user \in Callers,
          message_data \in MessageCreates :
        LET r == create_message(conversation_id, current_user, message_data,
                                MaxMessages + 1)
        IN  /\ messages' = r.messages
            /\ conversations' = r.conversations
            /\ tasks' = r.tasks
            /\ request' = [request EXCEPT ![p] =
                    [organization_id |-> current_user.organization_id,
                     conversation_id |-> conversation_id,
                     message_id |-> 0,
                     message_count |-> 0]]
            /\ response' = [response EXCEPT ![p] = [NoResponse EXCEPT !.status = r.status]]
    /\ pc' = [pc EXCEPT ![p] = "DONE"]
    /\ UNCHANGED counterFrame

CounterNext ==
    \E p \in Procs :
        \/ DeleteMessageLoad(p)
        \/ DeleteMessageCommit(p)
        \/ CreateMessageRequest(p)

SpecCounter == CounterInit /\ [][CounterNext]_vars

\* no handler is between its load and its commit
Quiescent == \A p \in Procs : pc[p] # "LOADED"

\* the counter is never negative and never above the number of messages the
\* conversation started with
MessageCountInRange ==
    \A c \in DOMAIN conversations : conversations[c].message_count \in 0..MaxMessages

\* C29: after any sequence of create_message and delete_message requests on
\* a conversation, concurrent ones included, conversation.message_count is
\* the number of messages stored for the conversation and is not negative.
C29_MessageCountIsExact ==
    Quiescent =>
        \A c \in DOMAIN conversations :
            /\ conversations[c].message_count = Cardinality(MessagesOf(c))
            /\ conversations[c].message_count >= 0

\* ---------------------------------------------------------------------
\* The agentic loop: GoogleADKService.execute_agentic_loop
\*
\* The variables hold, in SpecLoop:
\*   pc                the position of the call ("IDLE", "LOOP", "RETURN", "DONE")
\*   request           the arguments (max_iterations, enabled, the length of
\*                     context.messages at the call)
\*   response          the locals iteration and agent_response
\*   phases            the local reasoning_steps
\*   context_messages  context.messages
\*   calls.llm         the number of execute_agent calls made
\*   out               what execute_agentic_loop returned or raised
\* ---------------------------------------------------------------------

\* the largest max_iterations a request carries
MaxIterations == 3

\* AgenticLoopRequest.max_iterations is an int without constraints
MaxIterationsValues == (0 - 1)..MaxIterations

\* what one generate_content call does inside execute_agent:
\*   "ok", "no"       text without a completion marker
\*   "done", "finals" text that contains a completion marker
\*   "error"          generate_content raises
LoopOutcomes == {"ok", "no", "done", "finals", "error"}

LoopText(o) ==
    CASE o = "ok" -> <<"o", "k">>
      [] o = "no" -> <<"n", "o">>
      [] o = "done" -> <<"d", "o", "n", "e">>
      [] o = "finals" -> <<"f", "i", "n", "a", "l", "s">>

\* ["complete", "done", "final"]
Markers == { <<"c", "o", "m", "p", "l", "e", "t", "e">>,
             <<"d", "o", "n", "e">>,
             <<"f", "i", "n", "a", "l">> }

\* any(marker in agent_response.lower() for marker in [...])
HasMarker(agent_response) ==
    \E marker \in Markers : Contains(marker, LowerStr(agent_response))

AgentMessage(role, content) == [role |-> role, content |-> content]

\* context.messages at the call: empty, or one earlier exchange
InitialMessages ==
    { <<>>,
      <<AgentMessage("user", <<"h", "i">>), AgentMessage("model", <<"o", "k">>)>> }

\* execute_agent on a context whose messages are msgs: the two messages are
\* appended only after generate_content and _parse_response returned
execute_agent_on(msgs, user_input, o) ==
    IF o = "error"
    THEN [success |-> FALSE, content |-> None, messages |-> msgs,
          error |-> Some("generate_content failed")]
    ELSE [success |-> TRUE, content |-> Some(LoopText(o)),
          messages |-> msgs \o <<AgentMessage("user", user_input),
                                 AgentMessage("model", LoopText(o))>>,
          error |-> None]

\* user_input if iteration == 1 else f"Continue processing: {agent_response}"
LoopInput(iteration, agent_response) ==
    IF iteration = 1
    THEN <<"user_input">>
    ELSE <<"Continue processing: ">> \o (IF agent_response = None
                                         THEN <<"None">> ELSE agent_response[1])

NoLocals == [iteration |-> 0, agent_response |-> None]

LoopInit ==
    /\ documents = <<>>
    /\ messages = <<>>
    /\ conversations = <<>>
    /\ qdrant = [documents |-> {}, conversations |-> {}]
    /\ tasks = {}
    /\ pc = "IDLE"
    /\ request \in [max_iterations : MaxIterationsValues,
                    enabled : BOOLEAN,
                    messages_before : {Len(ms) : ms \in InitialMessages}]
    /\ context_messages \in {ms \in InitialMessages : Len(ms) = request.messages_before}
    /\ context_documents = <<>>
    /\ enhanced_system_prompt = None
    /\ calls = NoCalls
    /\ phases = <<>>
    /\ faults = NoFaults
    /\ llm_system_prompt = None
    /\ response = NoLocals
    /\ out = NoOut

loopFrame == <<documents, messages, conversations, qdrant, tasks, request,
               context_documents, enhanced_system_prompt, faults,
               llm_system_prompt>>

\* the call enters: ValueError when the service is not enabled, else
\* iteration = 0, agent_response = None, reasoning_steps = []
LoopEnter ==
    /\ pc = "IDLE"
    /\ IF request.enabled
       THEN /\ pc' = "LOOP"
            /\ out' = out
       ELSE /\ pc' = "DONE"
            /\ out' = [op |-> "execute_agentic_loop", raised |-> TRUE,
                       success |-> FALSE, final_response |-> None,
                       iterations |-> 0, reasoning_steps |-> <<>>,
                       error |-> Some("Google ADK is not enabled")]
    /\ UNCHANGED <<loopFrame, context_messages, calls, phases, response>>

\* one pass through the body of "while iteration < max_iterations"
LoopIterate ==
    /\ pc = "LOOP"
    /\ response.iteration < request.max_iterations
    /\ \E o \in LoopOutcomes :
        LET iteration == response.iteration + 1
            r == execute_agent_on(context_messages,
                                  LoopInput(iteration, response.agent_response), o)
        IN  /\ calls' = [calls EXCEPT !.llm = @ + 1]
            /\ context_messages' = r.messages
            /\ IF ~r.success
               THEN /\ response' = [response EXCEPT !.iteration = iteration]
                    /\ phases' = phases
                    /\ pc' = "RETURN"
               ELSE /\ response' = [iteration |-> iteration,
                                    agent_response |-> r.content]
                    /\ phases' = Append(phases, [iteration |-> iteration,
                                                 response |-> r.content[1]])
                    /\ pc' = IF HasMarker(r.content[1]) THEN "RETURN" ELSE "LOOP"
    /\ UNCHANGED <<loopFrame, out>>

\* the return statement after the loop, reached by either break or by the
\* loop condition turning false
LoopReturn ==
    /\ \/ pc = "RETURN"
       \/ pc = "LOOP" /\ ~(response.iteration < request.max_iterations)
    /\ out' = [op |-> "execute_agentic_loop", raised |-> FALSE,
               success |-> TRUE, final_response |-> response.agent_response,
               iterations |-> response.iteration, reasoning_steps |-> phases,
               error |-> None]
    /\ pc' = "DONE"
    /\ UNCHANGED <<loopFrame, context_messages, calls, phases, response>>

LoopNext ==
    \/ LoopEnter
    \/ LoopIterate
    \/ LoopReturn

SpecLoop == LoopInit /\ [][LoopNext]_vars

\* the call returned a result (it did not raise)
LoopReturned == pc = "DONE" /\ out.op = "execute_agentic_loop" /\ ~out.raised

\* an iteration failed: the last execute_agent call added no reasoning step
IterationFailed == out.iterations > Len(out.reasoning_steps)

\* the loop makes at most max_iterations execute_agent calls, and none
\* after a response that carries a marker or after a failed call
LoopBoundedAndStopsAtMarker ==
    /\ calls.llm = 0 \/ calls.llm <= request.max_iterations
    /\ calls.llm = response.iteration
    /\ \A i \in 1..(Len(phases) - 1) : ~HasMarker(phases[i].response)
    /\ LoopReturned =>
          \/ IterationFailed
          \/ Len(phases) > 0 /\ HasMarker(phases[Len(phases)].response)
          \/ out.iterations = (IF request.max_iterations > 0
                               THEN request.max_iterations ELSE 0)

\* context.messages grows by two messages per successful iteration and by
\* none for a failed one
TwoMessagesPerSuccessfulIteration ==
    Len(context_messages) = request.messages_before + 2 * Len(phases)

\* the result of a call whose last iteration failed: the statement after the
\* loop answers success True with no error
FailedIterationReportedAsSuccess ==
    LoopReturned /\ IterationFailed /\ out.success /\ out.error = None

\* C30: execute_agentic_loop ends after at most max_iterations agent
\* executions, stops at the first response containing "complete", "done" or
\* "final", and reports success = true only if at least one iteration
\* succeeded; when an iteration fails the result reports the failure, and
\* context.messages holds exactly two new messages per successful iteration
\* and none for the failed one.
C30_LoopReportsOutcome ==
    LoopReturned =>
        /\ calls.llm = 0 \/ calls.llm <= request.max_iterations
        /\ \A i \in 1..(Len(out.reasoning_steps) - 1) :
              ~HasMarker(out.reasoning_steps[i].response)
        /\ out.success => Len(out.reasoning_steps) >= 1
        /\ IterationFailed => ~out.success /\ out.error # None
        /\ Len(context_messages) =
              request.messages_before + 2 * Len(out.reasoning_steps)

====
